---- MODULE Spec2Model ----
(***************************************************************************)
(* Verification model of the BrawlFast ranking engine                      *)
(* (lib/rankingEngine.js, lib/changepoint.js, lib/statistics.js,           *)
(* lib/mapFeatures.js, config/ranking.config.js).                          *)
(*                                                                         *)
(* JavaScript numbers are modelled in fixed point: a score or weight x is  *)
(* the integer round(x * ONE); variances are kept at VONE.  Every          *)
(* multiplication and division rounds to the nearest unit, as an IEEE      *)
(* operation rounds to the nearest double.  NaN is a distinguished value   *)
(* that the arithmetic propagates.                                         *)
(***************************************************************************)
EXTENDS Integers, Sequences, FiniteSets, TLC

ONE  == 1000000
VONE == 1000000000
NaN  == -2000000000
Absent == -1

Abs(x) == IF x < 0 THEN 0 - x ELSE x
Min(a, b) == IF a < b THEN a ELSE b
Max(a, b) == IF a > b THEN a ELSE b

(* Math.max / Math.min: NaN if either argument is NaN *)
MathMax(a, b) == IF a = NaN \/ b = NaN THEN NaN ELSE Max(a, b)
MathMin(a, b) == IF a = NaN \/ b = NaN THEN NaN ELSE Min(a, b)

(* the largest digit base B for which (2B - 1) * c stays within 31 bits *)
RadixFor(c) == IF c <= 1048576 THEN 1024
               ELSE IF c <= 16777216 THEN 64
               ELSE IF c <= 134217728 THEN 8
               ELSE 2

(* <<q, t>> with t < 2^31 brought to <<q + t \div c, t % c>> *)
Carry(q, t, c) == <<q + (t \div c), t % c>>

(* <<q, r>> of a * (B * b1 + d) by c, from that of a * b1 by c, h *)
MulDigit(h, d, a, c, B) ==
  Carry(B * h[1] + d * (a \div c), B * h[2] + d * (a % c), c)

(* long multiplication of a by the base-B digits of b, reduced by c *)
RECURSIVE MulDigits(_, _, _, _)
MulDigits(a, b, c, B) ==
  IF b = 0 THEN <<0, 0>>
  ELSE IF a <= 2147483647 \div b THEN <<(a * b) \div c, (a * b) % c>>
  ELSE MulDigit(MulDigits(a, b \div B, c, B), b % B, a, c, B)

(* <<q, r>> with a*b = q*c + r and 0 <= r < c, without leaving 31 bits *)
MulQR(a, b, c) ==
  IF b = 0 \/ a = 0 THEN <<0, 0>>
  ELSE MulDigits(Max(a, b), Min(a, b), c, RadixFor(c))

(* a*b/c rounded to the nearest integer, signs allowed in a and b, c > 0 *)
RoundQR(qr, c) == qr[1] + (IF 2 * qr[2] >= c THEN 1 ELSE 0)

(* q with the sign of a * b *)
Signed(q, a, b) == IF (a < 0) = (b < 0) THEN q ELSE 0 - q

MulDiv(a, b, c) == Signed(RoundQR(MulQR(Abs(a), Abs(b), c), c), a, b)

Mul(a, b) == MulDiv(a, b, ONE)
Div(a, b) == MulDiv(a, ONE, b)

PowersOf2 == <<1, 2, 4, 8, 16, 32, 64, 128, 256, 512, 1024, 2048, 4096, 8192,
               16384, 32768, 65536, 131072, 262144, 524288, 1048576, 2097152,
               4194304, 8388608, 16777216, 33554432, 67108864, 134217728,
               268435456, 536870912, 1073741824>>

Pow2(k) == PowersOf2[k + 1]

Log2Floor(n) ==
  IF n < 2 THEN 0
  ELSE CHOOSE k \in 1..30 : Pow2(k) <= n /\ (k = 30 \/ n < Pow2(k + 1))

(* floor(sqrt(x * s)) by Newton's iteration from a bound r above the root *)
RECURSIVE SqrtSearch(_, _, _)
SqrtStep(x, s, r, n) == IF n >= r THEN r ELSE SqrtSearch(x, s, n)

SqrtSearch(x, s, r) == SqrtStep(x, s, r, (r + MulQR(x, s, r)[1]) \div 2)

(* floor(sqrt(x * s)) for x >= 0 *)
Sqrt(x, s) ==
  IF x = 0 THEN 0
  ELSE SqrtSearch(x, s, Pow2((Log2Floor(x) + Log2Floor(s) + 3) \div 2))

(* Math.sqrt of a VONE-scaled variance, result ONE-scaled *)
SqrtV(v) == IF v = NaN \/ v < 0 THEN NaN ELSE Sqrt(v, 1000)

(* Math.ceil(n * p) for a percentage p given in hundredths *)
CeilPct(n, pct) == (n * pct + 99) \div 100

(* Number(x.toFixed(3)): ONE-scaled x to thousandths *)
ToFixed3(x) == IF x = NaN THEN NaN
               ELSE IF x >= 0 THEN (x + 500) \div 1000
               ELSE 0 - ((500 - x) \div 1000)

(* ---------------- Math.exp, Math.log ---------------- *)

EInv == 367879
Ln2  == 693147

(* sum of the series 1 + f + f^2/2! + ... from term k on, f in [0, ONE) *)
RECURSIVE ExpSeries(_, _, _)
ExpSeries(f, term, k) ==
  IF term = 0 THEN 0
  ELSE term + ExpSeries(f, MulDiv(term, f, k * ONE), k + 1)

(* Math.exp(-n) for n = 1, 2, ...; below half a unit from n = 15 on *)
EInvPowers == <<EInv, 135335, 49787, 18316, 6738, 2479, 912, 335, 123, 45,
                17, 6, 2, 1>>

EInvPow(n) == IF n = 0 THEN ONE
              ELSE IF n > Len(EInvPowers) THEN 0
              ELSE EInvPowers[n]

(* Math.exp(-x) for x >= 0 *)
ExpNeg(x) ==
  IF x \div ONE >= 21 THEN 0
  ELSE Mul(EInvPow(x \div ONE), Div(ONE, ExpSeries(x % ONE, ONE, 1)))

(* y + y^3/3 + y^5/5 + ... from the term with odd exponent j on *)
RECURSIVE AtanhSeries(_, _, _)
AtanhSeries(ypow, ysq, j) ==
  IF ypow = 0 THEN 0
  ELSE (ypow + (j \div 2)) \div j + AtanhSeries(Mul(ypow, ysq), ysq, j + 2)

(* Math.log(n) for an integer n >= 1: n = 2^k * m, ln m = 2 atanh((m-1)/(m+1)) *)
LnAtanh(k, y) == k * Ln2 + 2 * AtanhSeries(y, Mul(y, y), 1)

LnSplit(n, k) == LnAtanh(k, MulDiv(n - Pow2(k), ONE, n + Pow2(k)))

Ln(n) == LnSplit(n, Log2Floor(n))

(* e / (1 + e) *)
Odds(e) == Div(e, ONE + e)

(* 1 / (1 + Math.exp(-logit)) *)
Sigmoid(logit) ==
  IF logit >= 0 THEN Div(ONE, ONE + ExpNeg(logit))
  ELSE Odds(ExpNeg(0 - logit))

(***************************************************************************)
(* Program state.  The engine is a library of functions over caller-owned  *)
(* objects, so the state is the object store the caller and the engine     *)
(* share, the caller's array, the array the last call returned, the wall   *)
(* clock read by Date.now(), and the arguments and results of the calls.   *)
(* The server around the engine keeps state of its own: the rate limiter's *)
(* client records, the response cache with the requests that wait for the  *)
(* upstream, and the pick-rate snapshot store.  passed, cachedOnce and     *)
(* saved record what happened: the requests handed to the next handler,    *)
(* the keys that were cached at some time, and every snapshot saved.       *)
(***************************************************************************)
VARIABLES heap, brawlers, ranked, op, now, args, out, out2,
          clients, passed, cache, pending, cachedOnce, snapshots, saved

services == <<clients, passed, cache, pending, cachedOnce, snapshots, saved>>

vars == <<heap, brawlers, ranked, op, now, args, out, out2, services>>

NoArgs == [fn |-> "none"]
NoOut  == [fn |-> "none"]

(* ---------------- entities ---------------- *)

(* a brawler object; an absent numeric field is Absent, an absent list is  *)
(* the empty list, an absent tier is the empty string                      *)
Entity(name, wr, awr, ur, cnt, games, mus, hp, hw) ==
  [name |-> name, winRate |-> wr, adjustedWinRate |-> awr, useRate |-> ur,
   count |-> cnt, recentGames |-> games, matchups |-> mus,
   historicalPickRate |-> hp, historicalWinRate |-> hw,
   cps |-> Absent, tier |-> ""]

(* x || d for a number: 0, NaN and undefined are falsy *)
OrElse(x, d) == IF x = Absent \/ x = 0 \/ x = NaN THEN d ELSE x

(* ---------------- configuration (config/ranking.config.js) ---------------- *)

(* win rates, use rates and lifts are kept in thousandths of a percentage  *)
(* point; game counts handed to the confidence estimator in hundredths     *)
PCT  == 1000
CENT == 100

priorWinsDefault   == 50
priorLossesDefault == 50
halfLifeDays       == 14

MapTypes == {"gemGrab", "brawlBall", "bounty", "heist", "showdown", "hotZone",
             "knockout", "unknown"}

Weights(p, s, u, c) == [performance |-> p, synergy |-> s, popularity |-> u, counter |-> c]

mapWeights(mapType) ==
  CASE mapType \in {"gemGrab", "hotZone"} -> Weights(400000, 350000, 150000, 100000)
    [] mapType = "showdown" -> Weights(750000, 50000, 100000, 100000)
    [] mapType \in {"brawlBall", "bounty", "knockout"} -> Weights(500000, 200000, 150000, 150000)
    [] mapType = "heist" -> Weights(600000, 100000, 150000, 150000)
    [] mapType = "unknown" -> Weights(500000, 200000, 150000, 150000)

SkillTiers == {"casual", "competitive", "pro"}

skillTierModifiers(tier) ==
  CASE tier = "casual" -> Weights(100000, -100000, 50000, -50000)
    [] tier = "competitive" -> Weights(0, 0, 0, 0)
    [] tier = "pro" -> Weights(-50000, 100000, -100000, 50000)

compMinTeamSampleCount == 50
compOffset == 5
compRange  == 10
winRateCoeff     == 2000000
trapPenaltyCoeff == 500000
minMatchupSampleCount == 30
counterDefaultScore   == 500000
dvMinMultiplier       == 700000
pickRateDropThreshold == -300000
winRateStabilityThreshold == 2
maxPenalty == 500000
ciZScore   == 1960000

(* a buggy variant: the configured flag is off *)
changepointDetectionOff ==
  [null |-> FALSE, enabled |-> FALSE, threshold |-> 2500000, recentWindowDays |-> 3,
   minRecentGames |-> 30, minHalfLife |-> 2]

changepointDetection ==
  [null |-> FALSE, enabled |-> TRUE, threshold |-> 2500000, recentWindowDays |-> 3,
   minRecentGames |-> 30, minHalfLife |-> 2]

(* the sum of q[lo..hi], halving the range *)
RECURSIVE SumRange(_, _, _)
SumRange(q, lo, hi) ==
  IF lo > hi THEN 0
  ELSE IF lo = hi THEN q[lo]
  ELSE SumRange(q, lo, (lo + hi) \div 2) + SumRange(q, ((lo + hi) \div 2) + 1, hi)

SumSeq(q) == SumRange(q, 1, Len(q))

(* the largest element of q, or 0 if none is larger *)
MaxSeq(q) == CHOOSE m \in {0} \cup {q[i] : i \in 1..Len(q)} :
               m >= 0 /\ \A i \in 1..Len(q) : q[i] <= m

(* Array.prototype.filter *)
Filter(q, Test(_)) == SelectSeq(q, Test)

(* ---------------- statistics (lib/statistics.js) ---------------- *)

(* mean of a list of whole percentages, PCT-scaled *)
mean(values) ==
  IF Len(values) = 0 THEN 0 ELSE MulDiv(SumSeq(values), PCT, Len(values))

(* population standard deviation, PCT-scaled *)
standardDeviation(values) ==
  IF Len(values) < 2 THEN 0
  ELSE LET avg == mean(values)
           sq  == [i \in 1..Len(values) |->
                     MulDiv(values[i] * PCT - avg, values[i] * PCT - avg, PCT)]
           variance == MulDiv(SumSeq(sq), 1, Len(values))
       IN Sqrt(variance, PCT)

(* a buggy variant: the sample size is ignored *)
binomialVarianceNoSample(winRatePct, n) == 250000000

(* p(1-p)/n for a whole percentage, VONE-scaled *)
binomialVariance(winRatePct, n) ==
  IF n = Absent \/ n <= 0 THEN 250000000
  ELSE MulDiv(winRatePct * (100 - winRatePct), 100000, n)

(* a buggy variant: forgets the 1/(total + 1) factor *)
BetaVarRatioOnly(alpha, beta) ==
  LET total == alpha + beta
  IN 1000 * Mul(MulDiv(alpha, ONE, total), MulDiv(beta, ONE, total))

(* Beta(alpha, beta) variance: alpha*beta / (total^2 (total + 1)), VONE-scaled, *)
(* computed as (alpha/total)(beta/total)/(total + 1); arguments CENT-scaled    *)
BetaVar(alpha, beta) ==
  LET total == alpha + beta
  IN MulDiv(Mul(MulDiv(alpha, ONE, total), MulDiv(beta, ONE, total)),
            1000 * CENT, total + CENT)

(* ---------------- Bayesian confidence ---------------- *)

(* a buggy variant: the interval is taken as six standard deviations wide *)
calculateBayesianConfidenceWide(wins, losses, priorWins, priorLosses) ==
  LET alpha == wins + priorWins
      beta  == losses + priorLosses
      total == alpha + beta
      variance == IF total = 0 THEN NaN ELSE BetaVar(alpha, beta)
      stdDev   == SqrtV(variance)
      intervalWidth == IF stdDev = NaN THEN NaN ELSE 6 * stdDev
  IN MathMax(0, IF intervalWidth = NaN THEN NaN ELSE ONE - intervalWidth)

(* calculateBayesianConfidence; 0/0 is NaN when alpha + beta = 0 *)
calculateBayesianConfidence(wins, losses, priorWins, priorLosses) ==
  LET alpha == wins + priorWins
      beta  == losses + priorLosses
      total == alpha + beta
      variance == IF total = 0 THEN NaN ELSE BetaVar(alpha, beta)
      stdDev   == SqrtV(variance)
      intervalWidth == IF stdDev = NaN THEN NaN ELSE 4 * stdDev
  IN MathMax(0, IF intervalWidth = NaN THEN NaN ELSE ONE - intervalWidth)

(* ---------------- weight composition ---------------- *)

(* normalizeMapType: the mode string is given by the keywords it contains   *)
(* once lower-cased and stripped of spaces, hyphens and underscores          *)
normalizeMapType(mode) ==
  IF "gem" \in mode THEN "gemGrab"
  ELSE IF "ball" \in mode THEN "brawlBall"
  ELSE IF "bounty" \in mode THEN "bounty"
  ELSE IF "heist" \in mode THEN "heist"
  ELSE IF "showdown" \in mode THEN "showdown"
  ELSE IF "zone" \in mode THEN "hotZone"
  ELSE IF "knock" \in mode THEN "knockout"
  ELSE "unknown"

getMapTypeWeights(mapType) ==
  IF mapType \in MapTypes THEN mapWeights(mapType) ELSE mapWeights("unknown")

(* the terrain features getMapFeatures finds for a map name; NoFeatures for *)
(* a null name or a name not in the table                                   *)
NoFeatures == [found |-> FALSE]
Features(o, b, l) == [found |-> TRUE, openness |-> o, bushCoverage |-> b, laneCount |-> l]

(* getMapFeatureWeightModifiers *)
getMapFeatureWeightModifiers(features) ==
  IF ~features.found THEN Weights(0, 0, 0, 0)
  ELSE Weights(Mul(60000, features.openness - 500000),
               Mul(40000, MulDiv(features.laneCount - 2, ONE, 2)),
               Mul(-30000, features.openness - 500000),
               Mul(40000, features.bushCoverage - 500000))

Clamp01(v) == MathMax(0, MathMin(ONE, v))

(* a buggy variant: returns the clamped weights without dividing by their sum *)
NormalizeSkipped(clamped, total) == clamped

Normalize(clamped, total) ==
  Weights(Div(clamped.performance, total), Div(clamped.synergy, total),
          Div(clamped.popularity, total), Div(clamped.counter, total))

(* a buggy variant: every tier is taken as 'competitive' *)
TierModifiersIgnored(skillTier) == skillTierModifiers("competitive")

(* the modifiers of a skill tier; 'competitive' for a missing or unknown tier *)
TierModifiers(skillTier) ==
  LET tier == IF skillTier = "" THEN "competitive" ELSE skillTier
  IN IF tier \in SkillTiers THEN skillTierModifiers(tier)
     ELSE skillTierModifiers("competitive")

(* base + tier modifier + feature modifier, per weight *)
RawWeights(base, tierMods, featureMods) ==
  Weights(base.performance + tierMods.performance + featureMods.performance,
          base.synergy + tierMods.synergy + featureMods.synergy,
          base.popularity + tierMods.popularity + featureMods.popularity,
          base.counter + tierMods.counter + featureMods.counter)

ClampedWeights(raw) ==
  Weights(Clamp01(raw.performance), Clamp01(raw.synergy),
          Clamp01(raw.popularity), Clamp01(raw.counter))

(* the clamped weights over Object.values(clamped).reduce((s, v) => s + v, 0) || 1 *)
NormalizedWeights(clamped) ==
  Normalize(clamped, OrElse(clamped.performance + clamped.synergy + clamped.popularity
                              + clamped.counter, ONE))

(* getEffectiveWeights(mapType, skillTier, mapName) *)
getEffectiveWeights(mapType, skillTier, features) ==
  NormalizedWeights(ClampedWeights(RawWeights(getMapTypeWeights(mapType),
                                              TierModifiers(skillTier),
                                              getMapFeatureWeightModifiers(features))))

(* ---------------- temporal decay and change-point detection ---------------- *)

Game(isWin, timestamp) == [isWin |-> isWin, timestamp |-> timestamp]

IsWin(g) == g.isWin

(* a buggy variant: the historical window ends where the recent one starts *)
GameWindowsDisjoint(games, recentWindowDays, halfLife, t) ==
  [recentGames |-> SelectSeq(games, LAMBDA g : g.timestamp >= t - recentWindowDays),
   histGames   |-> SelectSeq(games, LAMBDA g : g.timestamp >= t - halfLife
                                               /\ g.timestamp < t - recentWindowDays)]

(* recentGames and histGames: the games at or after recentCutoff and at or *)
(* after histCutoff                                                        *)
GameWindows(games, recentWindowDays, halfLife, t) ==
  [recentGames |-> SelectSeq(games, LAMBDA g : g.timestamp >= t - recentWindowDays),
   histGames   |-> SelectSeq(games, LAMBDA g : g.timestamp >= t - halfLife)]

(* a buggy variant: the test runs however few the recent games are *)
detectChangepointAnySample(games, halfLife, cpCfg, t) ==
  LET cfg == IF cpCfg.null THEN changepointDetection ELSE cpCfg
      none == [isChangepoint |-> FALSE, effectiveHalfLife |-> halfLife * ONE, zShift |-> 0]
      recentGames == GameWindows(games, cfg.recentWindowDays, halfLife, t).recentGames
      histGames   == GameWindows(games, cfg.recentWindowDays, halfLife, t).histGames
      pRecent == Div(Len(Filter(recentGames, IsWin)), Len(recentGames))
      pHist   == IF Len(histGames) > 0
                 THEN Div(Len(Filter(histGames, IsWin)), Len(histGames))
                 ELSE 500000
      se == SqrtV(MulDiv(Mul(pHist, ONE - pHist), 1000, Len(recentGames)))
      zShift == Div(Abs(pRecent - pHist), se)
  IN IF ~cfg.enabled THEN none
     ELSE IF Len(games) = 0 THEN none
     ELSE IF Len(recentGames) = 0 THEN none
     ELSE IF se = 0 THEN none
     ELSE IF zShift > cfg.threshold
          THEN [isChangepoint |-> TRUE,
                effectiveHalfLife |-> Max(cfg.minHalfLife * ONE, Div(halfLife * ONE, zShift)),
                zShift |-> zShift]
          ELSE [isChangepoint |-> FALSE, effectiveHalfLife |-> halfLife * ONE,
                zShift |-> zShift]

(* detectChangepoint(games, halfLifeDays, cpCfg) read at clock t; timestamps *)
(* and the clock are in days, the effective half-life is ONE-scaled days     *)
detectChangepoint(games, halfLife, cpCfg, t) ==
  LET cfg == IF cpCfg.null THEN changepointDetection ELSE cpCfg
      none == [isChangepoint |-> FALSE, effectiveHalfLife |-> halfLife * ONE, zShift |-> 0]
      recentGames == GameWindows(games, cfg.recentWindowDays, halfLife, t).recentGames
      histGames   == GameWindows(games, cfg.recentWindowDays, halfLife, t).histGames
      pRecent == Div(Len(Filter(recentGames, IsWin)), Len(recentGames))
      pHist   == IF Len(histGames) > 0
                 THEN Div(Len(Filter(histGames, IsWin)), Len(histGames))
                 ELSE 500000
      se == SqrtV(MulDiv(Mul(pHist, ONE - pHist), 1000, Len(recentGames)))
      zShift == Div(Abs(pRecent - pHist), se)
  IN IF ~cfg.enabled THEN none
     ELSE IF Len(games) = 0 THEN none
     ELSE IF Len(recentGames) < cfg.minRecentGames THEN none
     ELSE IF se = 0 THEN none
     ELSE IF zShift > cfg.threshold
          THEN [isChangepoint |-> TRUE,
                effectiveHalfLife |-> Max(cfg.minHalfLife * ONE, Div(halfLife * ONE, zShift)),
                zShift |-> zShift]
          ELSE [isChangepoint |-> FALSE, effectiveHalfLife |-> halfLife * ONE,
                zShift |-> zShift]

(* calculateTimeWeightedWinRate(games, halfLifeDays) read at clock t:        *)
(* Absent (null) without games, else a PCT-scaled percentage                 *)
calculateTimeWeightedWinRate(games, halfLife, t) ==
  LET weight(g) == ExpNeg(MulDiv((t - g.timestamp) * ONE, ONE, halfLife))
      ws == [i \in 1..Len(games) |-> weight(games[i])]
      totalWeight  == SumSeq(ws)
      weightedWins == SumSeq([i \in 1..Len(games) |->
                                IF games[i].isWin THEN ws[i] ELSE 0])
  IN IF Len(games) = 0 THEN Absent
     ELSE IF totalWeight = 0 THEN 0
     ELSE MulDiv(weightedWins, 100 * PCT, totalWeight)

(* ---------------- component scores ---------------- *)

Team(members, wr, awr, cnt) ==
  [brawlers |-> members, winRate |-> wr, adjustedWinRate |-> awr, count |-> cnt]

Includes(q, x) == \E i \in 1..Len(q) : q[i] = x

(* b.adjustedWinRate || b.winRate || 50 *)
WinRateOr50(b) == OrElse(OrElse(b.adjustedWinRate, b.winRate), 50)

(* new Map(topBrawlers.map(...)).get(n) || 50: the last entry of a name wins *)
MapGetWinRate(topBrawlers, n) ==
  IF \E i \in 1..Len(topBrawlers) : topBrawlers[i].name = n
  THEN WinRateOr50(topBrawlers[CHOOSE i \in 1..Len(topBrawlers) :
         /\ topBrawlers[i].name = n
         /\ \A j \in (i + 1)..Len(topBrawlers) : topBrawlers[j].name # n])
  ELSE 50

(* calculateCompositionScore(brawlerName, allTeams, topBrawlers) *)
calculateCompositionScore(brawlerName, allTeams, topBrawlers) ==
  LET Relevant(t) == /\ Includes(t.brawlers, brawlerName)
                     /\ OrElse(t.count, 0) > compMinTeamSampleCount
      relevantTeams == Filter(allTeams, Relevant)
      teamWR(t) == WinRateOr50(t)
      teamMeanWR(t) ==
        MulDiv(SumSeq([i \in 1..Len(t.brawlers) |-> MapGetWinRate(topBrawlers, t.brawlers[i])]),
               PCT, Len(t.brawlers))
      compLift(t) == teamWR(t) * PCT - teamMeanWR(t)
      weight(t) == Ln(Max(OrElse(t.count, 1), 1))
      totalLift == SumSeq([i \in 1..Len(relevantTeams) |->
                             Mul(compLift(relevantTeams[i]), weight(relevantTeams[i]))])
      totalWeight == SumSeq([i \in 1..Len(relevantTeams) |-> weight(relevantTeams[i])])
      avgLift == MulDiv(totalLift, ONE, totalWeight)
  IN IF Len(relevantTeams) = 0 THEN 500000
     ELSE IF totalWeight = 0 THEN 500000
     ELSE Clamp01(MulDiv(avgLift + compOffset * PCT, ONE, compRange * PCT))

(* a buggy variant: the penalty term is not clamped at 0 *)
calculateUseRateScoreUnclamped(useRate, winRate, meanUse, stdDevUse, meanWin, stdDevWin) ==
  LET zUse == IF stdDevUse > 0 THEN MulDiv(useRate * PCT - meanUse, ONE, stdDevUse) ELSE 0
      zWin == IF stdDevWin > 0 THEN MulDiv(winRate * PCT - meanWin, ONE, stdDevWin) ELSE 0
      trapPenalty == Mul(trapPenaltyCoeff, zUse - zWin)
      logit == Mul(winRateCoeff, zWin) - trapPenalty
  IN Sigmoid(logit)

(* calculateUseRateScore; rates are whole percentages, pool statistics PCT-scaled *)
calculateUseRateScore(useRate, winRate, meanUse, stdDevUse, meanWin, stdDevWin) ==
  LET zUse == IF stdDevUse > 0 THEN MulDiv(useRate * PCT - meanUse, ONE, stdDevUse) ELSE 0
      zWin == IF stdDevWin > 0 THEN MulDiv(winRate * PCT - meanWin, ONE, stdDevWin) ELSE 0
      trapPenalty == Mul(trapPenaltyCoeff, Max(zUse - zWin, 0))
      logit == Mul(winRateCoeff, zWin) - trapPenalty
  IN Sigmoid(logit)

Matchup(opponent, wr, n) == [opponent |-> opponent, winRate |-> wr, sampleCount |-> n]

(* a buggy variant: the deviation is never attenuated *)
DiversityMultiplierFull(totalWeight, maxWeight) == ONE

(* the diversity penalty: minMultiplier when one matchup holds all the *)
(* weight, more when the weight is spread                              *)
DiversityMultiplier(totalWeight, maxWeight) ==
  LET diversity == IF totalWeight > maxWeight THEN ONE - Div(maxWeight, totalWeight) ELSE 0
  IN dvMinMultiplier + Mul(ONE - dvMinMultiplier, diversity)

(* a buggy variant: a matchup with exactly the minimum sample count is used *)
calculateCounterMetaScoreAtMinimum(brawlerName, matchups, popularEnemies) ==
  LET Counted(m) == /\ m.sampleCount >= minMatchupSampleCount
                    /\ (Len(popularEnemies) = 0 \/ Includes(popularEnemies, m.opponent))
      used == Filter(matchups, Counted)
      ws   == [i \in 1..Len(used) |-> Ln(used[i].sampleCount)]
      totalWeightedWinRate == SumSeq([i \in 1..Len(used) |-> Mul(used[i].winRate * PCT, ws[i])])
      totalWeight == SumSeq(ws)
      maxWeight   == MaxSeq(ws)
      rawScore == MulDiv(MulDiv(totalWeightedWinRate, ONE, totalWeight), ONE, 100 * PCT)
      diversityMultiplier == DiversityMultiplier(totalWeight, maxWeight)
      deviation == rawScore - 500000
  IN IF Len(matchups) = 0 THEN counterDefaultScore
     ELSE IF totalWeight = 0 THEN counterDefaultScore
     ELSE Clamp01(500000 + Mul(deviation, diversityMultiplier))

(* calculateCounterMetaScore(brawlerName, matchups, popularEnemies) *)
calculateCounterMetaScore(brawlerName, matchups, popularEnemies) ==
  LET Counted(m) == /\ m.sampleCount > minMatchupSampleCount
                    /\ (Len(popularEnemies) = 0 \/ Includes(popularEnemies, m.opponent))
      used == Filter(matchups, Counted)
      ws   == [i \in 1..Len(used) |-> Ln(used[i].sampleCount)]
      totalWeightedWinRate == SumSeq([i \in 1..Len(used) |-> Mul(used[i].winRate * PCT, ws[i])])
      totalWeight == SumSeq(ws)
      maxWeight   == MaxSeq(ws)
      rawScore == MulDiv(MulDiv(totalWeightedWinRate, ONE, totalWeight), ONE, 100 * PCT)
      diversityMultiplier == DiversityMultiplier(totalWeight, maxWeight)
      deviation == rawScore - 500000
  IN IF Len(matchups) = 0 THEN counterDefaultScore
     ELSE IF totalWeight = 0 THEN counterDefaultScore
     ELSE Clamp01(500000 + Mul(deviation, diversityMultiplier))

(* a buggy variant: the win-rate shift is not looked at *)
computeStalenessAnyShift(recentPickRate, historicalPickRate, recentWR, historicalWR) ==
  IF historicalPickRate = Absent \/ historicalPickRate <= 0 THEN ONE
  ELSE LET drop == MulDiv(recentPickRate - historicalPickRate, ONE, historicalPickRate)
       IN IF drop < pickRateDropThreshold
          THEN Max(ONE - maxPenalty, ONE + Mul(500000, drop))
          ELSE ONE

(* computeStaleness(recentPickRate, historicalPickRate, recentWR, historicalWR, cfg); *)
(* rates are whole percentages                                                       *)
computeStaleness(recentPickRate, historicalPickRate, recentWR, historicalWR) ==
  IF historicalPickRate = Absent \/ historicalPickRate <= 0 THEN ONE
  ELSE LET drop    == MulDiv(recentPickRate - historicalPickRate, ONE, historicalPickRate)
           wrShift == Abs(recentWR - historicalWR)
       IN IF drop < pickRateDropThreshold /\ wrShift < winRateStabilityThreshold
          THEN Max(ONE - maxPenalty, ONE + Mul(500000, drop))
          ELSE ONE

(* ---------------- CPS aggregation ---------------- *)

NoStats == [null |-> TRUE]

NotAbsent(x) == x # Absent

(* the distribution statistics of a pool, as computeCPS and rankBrawlers take them *)
PoolStats(allBrawlers) ==
  LET winRates == Filter([i \in 1..Len(allBrawlers) |->
                            IF OrElse(allBrawlers[i].adjustedWinRate, 0) # 0
                            THEN allBrawlers[i].adjustedWinRate
                            ELSE allBrawlers[i].winRate], NotAbsent)
      useRates == Filter([i \in 1..Len(allBrawlers) |-> allBrawlers[i].useRate], NotAbsent)
  IN [null |-> FALSE,
      meanWR |-> mean(winRates), stdDevWR |-> standardDeviation(winRates),
      meanUR |-> IF Len(useRates) > 0 THEN mean(useRates) ELSE 0,
      stdDevUR |-> IF Len(useRates) > 0 THEN standardDeviation(useRates) ELSE 0]

(* the staleness multiplier computeCPS applies *)
StalenessMult(brawler) ==
  LET winRate == WinRateOr50(brawler)
      useRate == OrElse(brawler.useRate, 0)
      historicalWR == IF brawler.historicalWinRate # Absent
                      THEN brawler.historicalWinRate ELSE winRate
  IN IF brawler.historicalPickRate # Absent
     THEN computeStaleness(useRate, brawler.historicalPickRate, winRate, historicalWR)
     ELSE ONE

(* wins = (winRate / 100) * count and losses = count - wins, in hundredths *)
(* of a game                                                              *)
ConfidenceInputs(winRate, count) ==
  [wins |-> winRate * count, losses |-> count * CENT - winRate * count]

(* a buggy variant: the estimator is called without its priors *)
BrawlerConfidenceNoPriors(brawler) ==
  LET winRate == WinRateOr50(brawler)
      count   == OrElse(brawler.count, 0)
      wins    == winRate * count
      losses  == count * CENT - wins
  IN calculateBayesianConfidence(wins, losses, 0, 0)

(* the Bayesian confidence computeCPS and computeCPSWithCI derive for a brawler *)
BrawlerConfidence(brawler) ==
  LET in == ConfidenceInputs(WinRateOr50(brawler), OrElse(brawler.count, 0))
  IN calculateBayesianConfidence(in.wins, in.losses, priorWinsDefault * CENT,
                                 priorLossesDefault * CENT)

(* the time-weighted win rate, or the plain win rate without games, as a *)
(* fraction of one                                                       *)
NormWinRate(twr, winRate) ==
  MulDiv(IF twr = Absent THEN winRate * PCT ELSE twr, ONE, 100 * PCT)

(* the weighted sum of the four component scores *)
BaseCPS(weights, normWinRate, compositionScore, useRateScore, counterScore) ==
  Mul(weights.performance, normWinRate)
    + Mul(weights.synergy, compositionScore)
    + Mul(weights.popularity, useRateScore)
    + Mul(weights.counter, counterScore)

UseRateScoreIn(useRate, winRate, st) ==
  calculateUseRateScore(useRate, winRate, st.meanUR, st.stdDevUR,
                        st.meanWR, st.stdDevWR)

ScaledCPS(baseCPS, confidence, stalenessMult) ==
  IF confidence = NaN THEN NaN
  ELSE Mul(Mul(baseCPS, confidence), stalenessMult)

(* baseCPS * confidence * stalenessMult before rounding *)
FinalCPS(brawler, allBrawlers, teams, mapMode, stats, skillTier, features, t) ==
  LET winRate == WinRateOr50(brawler)
      useRate == OrElse(brawler.useRate, 0)
      st == IF stats.null THEN PoolStats(allBrawlers) ELSE stats
      cp == detectChangepoint(brawler.recentGames, halfLifeDays, changepointDetection, t)
      twr == calculateTimeWeightedWinRate(brawler.recentGames, cp.effectiveHalfLife, t)
      confidence == BrawlerConfidence(brawler)
      weights == getEffectiveWeights(normalizeMapType(mapMode), skillTier, features)
      compositionScore == calculateCompositionScore(brawler.name, teams, allBrawlers)
      useRateScore == UseRateScoreIn(useRate, winRate, st)
      counterScore == calculateCounterMetaScore(brawler.name, brawler.matchups, << >>)
      baseCPS == BaseCPS(weights, NormWinRate(twr, winRate), compositionScore,
                         useRateScore, counterScore)
  IN ScaledCPS(baseCPS, confidence, StalenessMult(brawler))

(* a buggy variant: a call made after another result was produced is biased *)
computeCPSCounting(brawler, allBrawlers, teams, mapMode, stats, skillTier, features, t) ==
  ToFixed3(FinalCPS(brawler, allBrawlers, teams, mapMode, stats, skillTier, features, t))
    + (IF out.fn = "none" THEN 0 ELSE 1)

(* computeCPS(brawler, allBrawlers, teams, mapMode, stats, skillTier, mapName)  *)
(* called at clock t; the result is in thousandths                              *)
computeCPS(brawler, allBrawlers, teams, mapMode, stats, skillTier, features, t) ==
  ToFixed3(FinalCPS(brawler, allBrawlers, teams, mapMode, stats, skillTier, features, t))

(* a buggy variant: the bounds are not clamped to [0, 1] *)
CiBoundsUnclamped(cps, margin) ==
  <<ToFixed3(cps - margin), ToFixed3(cps + margin)>>

(* the interval [max(0, cps - margin), min(1, cps + margin)], in thousandths *)
CiBounds(cps, margin) ==
  <<ToFixed3(MathMax(0, cps - margin)), ToFixed3(MathMin(ONE, cps + margin))>>

(* Math.pow(v, 2) *)
Squared(v) == Mul(v, v)

(* the sum of w_i^2 Var(S_i) over the four components *)
ComponentVariance(weights, varWR, varComp, varUseRate, varCounter) ==
  Mul(Squared(weights.performance), varWR)
    + Mul(Squared(weights.synergy), varComp)
    + Mul(Squared(weights.popularity), varUseRate)
    + Mul(Squared(weights.counter), varCounter)

(* the delta method: C^2 * sum(w_i^2 Var(S_i)) + baseCPS^2 Var(C) *)
VarCPS(confidence, componentVariance, baseCPS, varConf) ==
  Mul(Squared(confidence), componentVariance) + Mul(Squared(baseCPS), varConf)

(* the object computeCPSWithCI returns; variance is Number(v.toFixed(6)) of *)
(* the VONE-scaled variance, in millionths                                 *)
CpsWithCI(cps, varCPS) ==
  [cps |-> cps,
   ci |-> CiBounds(cps * 1000, Mul(ciZScore, SqrtV(Max(0, varCPS)))),
   variance |-> (varCPS + 500) \div 1000]

CpsWithVariance(cps, confidence, componentVariance, varConf) ==
  CpsWithCI(cps, VarCPS(confidence, componentVariance,
                        IF confidence > 0 THEN Div(cps * 1000, confidence) ELSE cps * 1000,
                        varConf))

(* computeCPSWithCI(...) called at clock t: cps and ci in thousandths *)
computeCPSWithCI(brawler, allBrawlers, teams, mapMode, stats, skillTier, features, t) ==
  LET winRate == WinRateOr50(brawler)
      count   == OrElse(brawler.count, 0)
      wins    == winRate * count
      losses  == count * CENT - wins
      alpha   == wins + priorWinsDefault * CENT
      beta    == losses + priorLossesDefault * CENT
      varWR   == binomialVariance(winRate, count)
      varConf == IF alpha + beta <= 0 THEN 0 ELSE BetaVar(alpha, beta)
      varComp == 20000000
      varUseRate == 10000000
      varCounter == IF count > 0 THEN 10000000 ELSE 40000000
      weights == getEffectiveWeights(normalizeMapType(mapMode), skillTier, features)
      confidence == BrawlerConfidence(brawler)
  IN CpsWithVariance(
       computeCPS(brawler, allBrawlers, teams, mapMode, stats, skillTier, features, t),
       confidence,
       ComponentVariance(weights, varWR, varComp, varUseRate, varCounter),
       varConf)

(* ---------------- tier assignment ---------------- *)

PctS == 10
PctA == 20
PctB == 40
PctC == 20
minSTier == 1

CpsKey(b) == OrElse(b.cps, 0)

(* Array.prototype.sort with comparator (a, b) => key(b) - key(a): stable, *)
(* so x goes behind every element whose key is not smaller                 *)
(* a buggy variant: an entry overtakes the entries it ties with *)
RECURSIVE InsertDescUnstable(_, _, _)
InsertDescUnstable(h, sorted, r) ==
  IF sorted = << >> THEN <<r>>
  ELSE IF CpsKey(h[Head(sorted)]) > CpsKey(h[r])
       THEN <<Head(sorted)>> \o InsertDescUnstable(h, Tail(sorted), r)
       ELSE <<r>> \o sorted

RECURSIVE InsertDesc(_, _, _)
InsertDesc(h, sorted, r) ==
  IF sorted = << >> THEN <<r>>
  ELSE IF CpsKey(h[Head(sorted)]) >= CpsKey(h[r])
       THEN <<Head(sorted)>> \o InsertDesc(h, Tail(sorted), r)
       ELSE <<r>> \o sorted

RECURSIVE SortByCps(_, _)
SortByCps(h, arr) ==
  IF arr = << >> THEN << >>
  ELSE InsertDesc(h, SortByCps(h, SubSeq(arr, 1, Len(arr) - 1)), arr[Len(arr)])

(* a buggy variant: rounds down and forgets the minimum *)
sCountFloor(count) == (count * PctS) \div 100
sCount(count) == Max(minSTier, CeilPct(count, PctS))
aCount(count) == CeilPct(count, PctA)
bCount(count) == CeilPct(count, PctB)

(* the tier of the entry at 0-based position index of count entries *)
TierAt(index, count) ==
  IF index < sCount(count) THEN "S"
  ELSE IF index < sCount(count) + aCount(count) THEN "A"
  ELSE IF index < sCount(count) + aCount(count) + bCount(count) THEN "B"
  ELSE IF index < sCount(count) + aCount(count) + bCount(count) + CeilPct(count, PctC) THEN "C"
  ELSE "F"

(* a buggy variant: sorts the caller's array and tags its objects in place *)
assignTiersInPlace(h, arr) ==
  LET sorted == SortByCps(h, arr)
      count  == Len(sorted)
      pos(r) == CHOOSE i \in 1..count : sorted[i] = r
  IN [heap |-> [r \in DOMAIN h |->
                  IF \E i \in 1..count : sorted[i] = r
                  THEN [h[r] EXCEPT !.tier = TierAt(pos(r) - 1, count)]
                  ELSE h[r]],
      brawlers |-> sorted,
      result |-> sorted,
      alias |-> TRUE]

(* assignTiers(brawlers): sorts a copy, returns fresh objects {...b, tier}; *)
(* alias tells whether the array returned is the argument itself            *)
assignTiers(h, arr) ==
  LET sorted == SortByCps(h, arr)
      count  == Len(sorted)
  IN IF count = 0
     THEN [heap |-> h, brawlers |-> arr, result |-> arr, alias |-> TRUE]
     ELSE [heap |-> h \o [i \in 1..count |->
                            [h[sorted[i]] EXCEPT !.tier = TierAt(i - 1, count)]],
           brawlers |-> arr,
           result |-> [i \in 1..count |-> Len(h) + i],
           alias |-> FALSE]

(* what rankBrawlers returns: the tiered copies, never the argument itself *)
Ranked(r, arr) ==
  [heap |-> r.heap, brawlers |-> arr, result |-> r.result, alias |-> FALSE]

(* rankBrawlers(brawlers, teams, mapMode, skillTier, mapName) called at     *)
(* clock t; absent says that the list argument is null or undefined         *)
rankBrawlers(h, arr, absent, teams, mapMode, skillTier, features, t) ==
  IF absent \/ Len(arr) = 0
  THEN [heap |-> h, brawlers |-> arr, result |-> << >>, alias |-> FALSE]
  ELSE LET pool    == [i \in 1..Len(arr) |-> h[arr[i]]]
           stats   == PoolStats(pool)
           withCPS == [i \in 1..Len(arr) |->
                         [pool[i] EXCEPT !.cps =
                            computeCPS(pool[i], pool, teams, mapMode, stats,
                                       skillTier, features, t)]]
       IN Ranked(assignTiers(h \o withCPS, [i \in 1..Len(arr) |-> Len(h) + i]), arr)

(* ---------------- callers: pools handed to assignTiers ---------------- *)

SmallPool == 5
MaxPool   == 10
Now0      == 100

(* the pool of the distribution test: 20 entries, cps 1 - i * 0.04 *)
TestPoolSize == 20


Init ==
  /\ heap = << >>
  /\ brawlers = << >>
  /\ ranked = << >>
  /\ op = "init"
  /\ now = Now0
  /\ args = NoArgs
  /\ out = NoOut
  /\ out2 = NoOut
  /\ clients = {}
  /\ passed = << >>
  /\ cache = << >>
  /\ pending = << >>
  /\ cachedOnce = {}
  /\ snapshots = << >>
  /\ saved = << >>

(* the caller builds a list of scored entries; cps values are in thousandths, *)
(* Absent is an entry without a cps field                                     *)
SupplyScored ==
  \E pool \in UNION {[1..n -> {Absent, 0, 300, 900}] : n \in 0..SmallPool}
              \cup {[i \in 1..n |-> ((i * 7 + k * 3) % 11) * 100] :
                      n \in (SmallPool + 1)..MaxPool, k \in 0..2}
              \cup {[i \in 1..n |-> 1000 - (i - 1) * 40] : n \in (MaxPool + 1)..TestPoolSize} :
    /\ op = "init"
    /\ heap' = [i \in 1..Len(pool) |->
                 [Entity(i, Absent, Absent, Absent, Absent, << >>, << >>, Absent, Absent)
                    EXCEPT !.cps = pool[i]]]
    /\ brawlers' = [i \in 1..Len(pool) |-> i]
    /\ ranked' = << >>
    /\ op' = "scored"
    /\ UNCHANGED <<services, now, args, out, out2>>

(* the caller calls assignTiers(brawlers) *)
CallAssignTiers ==
  /\ op = "scored"
  /\ LET r == assignTiers(heap, brawlers)
     IN /\ heap' = r.heap
        /\ brawlers' = r.brawlers
        /\ ranked' = r.result
        /\ out' = [fn |-> "tiers", alias |-> r.alias]
  /\ op' = "tiered"
  /\ UNCHANGED <<services, now, args, out2>>

(* the request is over: the caller drops its lists and results *)
Release ==
  /\ op \notin {"init"}
  /\ heap' = << >>
  /\ brawlers' = << >>
  /\ ranked' = << >>
  /\ op' = "init"
  /\ args' = NoArgs
  /\ out' = NoOut
  /\ out2' = NoOut
  /\ UNCHANGED <<services, now>>

NextTiers == SupplyScored \/ CallAssignTiers \/ Release

SpecTiers == Init /\ [][NextTiers]_vars

(* ---------------- C1, C5 ---------------- *)

Tiers == {"S", "A", "B", "C", "F"}
TierRank(t) == CASE t = "S" -> 0 [] t = "A" -> 1 [] t = "B" -> 2
                 [] t = "C" -> 3 [] t = "F" -> 4 [] OTHER -> 9

TierCount(t) == Cardinality({i \in 1..Len(ranked) : heap[ranked[i]].tier = t})

(* C1: assignTiers on N >= 1 entities returns N entries, each with one tier
   of S, A, B, C, F, the per-tier counts summing to N; the tiers form
   contiguous bands in rank order (a lower-ranked entry never has a better
   tier); the top-ranked entry is S, also when N = 1. *)
C1_TierPartition ==
  (op = "tiered" /\ Len(brawlers) >= 1) =>
    /\ Len(ranked) = Len(brawlers)
    /\ \A i \in 1..Len(ranked) : heap[ranked[i]].tier \in Tiers
    /\ TierCount("S") + TierCount("A") + TierCount("B") + TierCount("C")
         + TierCount("F") = Len(brawlers)
    /\ \A i, j \in 1..Len(ranked) :
         i < j => TierRank(heap[ranked[i]].tier) <= TierRank(heap[ranked[j]].tier)
    /\ heap[ranked[1]].tier = "S"

C1_Witness ==
  /\ op = "tiered"
  /\ Len(ranked) = 10
  /\ heap[ranked[1]].tier = "S"
  /\ heap[ranked[10]].tier = "F"
  /\ \E i \in 1..Len(ranked) : heap[ranked[i]].tier = "B"

C1_WitnessSingle ==
  op = "tiered" /\ Len(ranked) = 1 /\ heap[ranked[1]].tier = "S"

(* position in the caller's array of the entry a returned object copies *)
SourcePos(r) == CHOOSE i \in 1..Len(brawlers) : heap[brawlers[i]].name = heap[r].name

(* C5: assignTiers returns its entries in non-increasing cps order, a
   missing cps counting as 0, and entries of equal cps keep the relative
   order they had in the input. *)
C5_SortedStable ==
  op = "tiered" =>
    \A i, j \in 1..Len(ranked) :
      i < j =>
        /\ CpsKey(heap[ranked[i]]) >= CpsKey(heap[ranked[j]])
        /\ CpsKey(heap[ranked[i]]) = CpsKey(heap[ranked[j]])
             => SourcePos(ranked[i]) < SourcePos(ranked[j])

C5_Witness ==
  /\ op = "tiered"
  /\ Len(ranked) >= 3
  /\ \E i, j \in 1..Len(ranked) :
       /\ i < j
       /\ heap[ranked[i]].cps = Absent /\ heap[ranked[j]].cps = 0
  /\ \E i \in 1..Len(ranked) : SourcePos(ranked[i]) # i

(* ---------------- callers of calculateBayesianConfidence ---------------- *)

MaxGames == 6

(* whole numbers of games *)
GameCounts == (0..MaxGames) \cup {10, 100, 1000}

ConfArgs(w, l, pw, pl) ==
  [fn |-> "confidence", wins |-> w, losses |-> l, priorWins |-> pw, priorLosses |-> pl]

ConfOut(a) ==
  [fn |-> "confidence",
   conf |-> calculateBayesianConfidence(a.wins * CENT, a.losses * CENT,
                                        a.priorWins * CENT, a.priorLosses * CENT)]

(* calculateBayesianConfidence(wins, losses, priorWins, priorLosses) *)
CallConfidence ==
  \E w, l \in GameCounts, pw, pl \in {0, 1, priorWinsDefault} :
    /\ op = "init"
    /\ args' = ConfArgs(w, l, pw, pl)
    /\ out' = ConfOut(args')
    /\ op' = "confidence"
    /\ UNCHANGED <<services, heap, brawlers, ranked, now, out2>>

(* a second call with a larger sample of the same win ratio and priors *)
CallConfidenceLarger ==
  \E w, l \in GameCounts :
    /\ op = "confidence"
    /\ w + l > args.wins + args.losses
    /\ w * args.losses = l * args.wins
    /\ out2' = ConfOut(ConfArgs(w, l, args.priorWins, args.priorLosses))
    /\ op' = "confidence2"
    /\ UNCHANGED <<services, heap, brawlers, ranked, now, args, out>>

NextConf == CallConfidence \/ CallConfidenceLarger \/ Release

SpecConf == Init /\ [][NextConf]_vars

DefaultPriors ==
  args.priorWins = priorWinsDefault /\ args.priorLosses = priorLossesDefault

(* C6: with the default priors the confidence strictly increases when the
   sample grows with the win ratio held fixed (wins + losses > 0). *)
C6_ConfidenceMonotone ==
  (op = "confidence2" /\ DefaultPriors /\ args.wins + args.losses > 0)
    => out2.conf > out.conf

C6_Witness ==
  /\ op = "confidence2" /\ DefaultPriors
  /\ args.wins = 100 /\ args.losses = 100
  /\ out2.conf > out.conf /\ out2.conf > 950000

(* C7: for all non-negative wins, losses and priors the confidence is a
   finite number in [0, 1]. *)
C7_ConfidenceFinite ==
  op = "confidence" => (out.conf # NaN /\ 0 <= out.conf /\ out.conf <= ONE)

(* ---------------- callers of getEffectiveWeights ---------------- *)

(* skill tier argument: "" is null/undefined, "legend" an unknown tier *)
CallGetEffectiveWeights ==
  \E mapType \in MapTypes \cup {"duels"}, tier \in SkillTiers \cup {"", "legend"},
     f \in {NoFeatures} \cup {Features(o, b, l) : o \in {0, 300000, 800000, ONE},
                                                  b \in {0, 600000, ONE}, l \in 1..4} :
    /\ op = "init"
    /\ args' = [fn |-> "weights", mapType |-> mapType, skillTier |-> tier, features |-> f]
    /\ out' = [fn |-> "weights", w |-> getEffectiveWeights(mapType, tier, f),
                mods |-> getMapFeatureWeightModifiers(f)]
    /\ op' = "weights"
    /\ UNCHANGED <<services, heap, brawlers, ranked, now, out2>>

NextWeights == CallGetEffectiveWeights \/ Release

SpecWeights == Init /\ [][NextWeights]_vars

WeightSum(w) == w.performance + w.synergy + w.popularity + w.counter
WeightsIn01(w) ==
  /\ 0 <= w.performance /\ w.performance <= ONE
  /\ 0 <= w.synergy /\ w.synergy <= ONE
  /\ 0 <= w.popularity /\ w.popularity <= ONE
  /\ 0 <= w.counter /\ w.counter <= ONE

(* C4 as stated: for every mode, skill tier and map context the four
   weights are each in [0, 1] and their sum is exactly 1. *)
C4_WeightsSumExactlyOne ==
  op = "weights" => (WeightsIn01(out.w) /\ WeightSum(out.w) = ONE)

(* the rounding of one division, in units of 1/ONE *)
RoundingUnits == 4

(* C4 amended: for every mode, skill tier and map context the four weights
   are each in [0, 1] and their sum equals 1 up to the rounding of the four
   divisions by the total. *)
C4_WeightsSumNearOne ==
  op = "weights" =>
    (WeightsIn01(out.w) /\ Abs(WeightSum(out.w) - ONE) <= RoundingUnits)

C4_Witness ==
  /\ op = "weights"
  /\ args.skillTier = "pro" /\ args.features.found /\ args.features.laneCount = 4
  /\ WeightSum(out.w) # ONE
  /\ Abs(WeightSum(out.w) - ONE) <= RoundingUnits

(* ---------------- callers of computeCPS and computeCPSWithCI ---------------- *)

(* the latest reading of the clock, in days *)
MaxNow == 101

TestMatchups == << Matchup(3, 60, 100), Matchup(2, 45, 40), Matchup(4, 90, 20) >>

Rep(n, g) == [i \in 1..n |-> g]

(* a burst of wins three days before Now0 after a losing history *)
ShiftGames == Rep(30, Game(TRUE, Now0 - 3)) \o Rep(10, Game(FALSE, Now0 - 10))


WinRates  == {0, 1, 55, 100}
CountVals == {0, 1, 50, 1000, 10000}

(* entities without optional fields, entities of the tests' shape, and     *)
(* entities with recent games, matchups and a historical pick rate         *)
BrawlerArgs ==
  {Entity(1, wr, Absent, Absent, Absent, << >>, << >>, Absent, Absent) : wr \in WinRates}
  \cup {Entity(1, wr, wr, 15, cnt, << >>, << >>, Absent, Absent) :
          wr \in WinRates, cnt \in CountVals}
  \cup {Entity(1, wr, Absent, IF hp = Absent THEN 100 ELSE 15, cnt, g,
                TestMatchups, hp, Absent) :
          wr \in WinRates, cnt \in CountVals,
          g \in {<<Game(TRUE, Now0 - 1), Game(FALSE, Now0 - 5), Game(TRUE, Now0 - 40)>>,
                 ShiftGames},
          hp \in {Absent, 30}}

Context(teams, mapMode, skillTier, features, stats) ==
  [teams |-> teams, mapMode |-> mapMode, skillTier |-> skillTier,
   features |-> features, stats |-> stats]

(* 'Gem Grab' without tier or map, as the tests call it *)
CtxTest == Context(<< >>, {"gem"}, "", NoFeatures, NoStats)
CtxPro ==
  Context(<< Team(<<1, 2, 3>>, 62, Absent, 500), Team(<<1, 2, 4>>, 47, 49, 80),
             Team(<<2, 3, 4>>, 70, Absent, 900), Team(<<1, 3, 4>>, 40, Absent, 20) >>,
          {"heist"}, "pro", Features(800000, 600000, 3), NoStats)

CpsOf(a, b, t) ==
  computeCPS(b, a.allBrawlers, a.ctx.teams, a.ctx.mapMode, a.ctx.stats,
             a.ctx.skillTier, a.ctx.features, t)

CpsCiOf(a, b, t) ==
  computeCPSWithCI(b, a.allBrawlers, a.ctx.teams, a.ctx.mapMode, a.ctx.stats,
                   a.ctx.skillTier, a.ctx.features, t)

(* the caller prepares the arguments of a scoring call; the pool is that of *)
(* the engine's tests: 1 Belle, 2 Brock, 3 Mortis                           *)
SupplyArgs ==
  \E b \in BrawlerArgs,
     c \in {CtxTest, CtxPro,
            Context(<< >>, {}, "casual", NoFeatures,
                    [null |-> FALSE, meanWR |-> 50 * PCT, stdDevWR |-> 0,
                     meanUR |-> 0, stdDevUR |-> 0])} :
    /\ op = "init"
    /\ args' = [fn |-> "cps", brawler |-> b, ctx |-> c,
                allBrawlers |->
                  << Entity(1, 55, 55, 15, Absent, << >>, << >>, Absent, Absent),
                     Entity(2, 50, 50, 10, Absent, << >>, << >>, Absent, Absent),
                     Entity(3, 48, 48, 12, Absent, << >>, << >>, Absent, Absent) >>]
    /\ op' = "args"
    /\ UNCHANGED <<services, heap, brawlers, ranked, now, out, out2>>

(* computeCPS(brawler, allBrawlers, teams, mapMode, stats, skillTier, mapName) *)
CallComputeCPS ==
  /\ op = "args"
  /\ out' = [fn |-> "cps", at |-> now, cps |-> CpsOf(args, args.brawler, now)]
  /\ op' = "cps"
  /\ UNCHANGED <<services, heap, brawlers, ranked, now, args, out2>>

(* the same call once more *)
CallComputeCPSAgain ==
  /\ op = "cps"
  /\ out2' = [fn |-> "cps", at |-> now, cps |-> CpsOf(args, args.brawler, now)]
  /\ op' = "cps2"
  /\ UNCHANGED <<services, heap, brawlers, ranked, now, args, out>>

(* computeCPSWithCI(brawler, allBrawlers, teams, mapMode, stats, skillTier, mapName) *)
CallComputeCPSWithCI ==
  /\ op = "args"
  /\ out' = [fn |-> "cpsci", count |-> OrElse(args.brawler.count, 0),
              r |-> CpsCiOf(args, args.brawler, now)]
  /\ op' = "cpsci"
  /\ UNCHANGED <<services, heap, brawlers, ranked, now, args, out2>>

(* a second call for an entity that differs by a larger count only *)
CallComputeCPSWithCILarger ==
  \E c \in CountVals :
    /\ op = "cpsci"
    /\ c > out.count
    /\ out2' = [fn |-> "cpsci", count |-> c,
                 r |-> CpsCiOf(args, [args.brawler EXCEPT !.count = c], now)]
    /\ op' = "cpsci2"
    /\ UNCHANGED <<services, heap, brawlers, ranked, now, args, out>>

(* a second call for the same entity with a historicalPickRate supplied *)
CallComputeCPSWithHistory ==
  /\ op = "cps"
  /\ args.brawler.historicalPickRate = Absent
  /\ out2' = [fn |-> "cps", at |-> now,
               cps |-> CpsOf(args, [args.brawler EXCEPT !.historicalPickRate = 30], now)]
  /\ op' = "cpsHistory"
  /\ UNCHANGED <<services, heap, brawlers, ranked, now, args, out>>

NextCPS ==
  SupplyArgs \/ CallComputeCPS \/ CallComputeCPSWithCI
    \/ CallComputeCPSWithCILarger \/ CallComputeCPSWithHistory \/ Release

SpecCPS == Init /\ [][NextCPS]_vars

(* ---------------- C2, C8, C9 ---------------- *)

(* C2: for every entity with winRate and useRate in [0, 100] and count >= 0,
   with or without its optional fields, and any teams, matchups, recent
   games, historical rates, mode, skill tier and map, computeCPS returns a
   finite number in [0, 1]. *)
C2_CpsFiniteInUnitRange ==
  op = "cps" => (out.cps # NaN /\ 0 <= out.cps /\ out.cps <= 1000)

C2_Witness ==
  /\ op = "cps"
  /\ args.brawler.useRate = Absent /\ args.brawler.count = Absent
  /\ args.brawler.recentGames = << >>
  /\ 0 < out.cps /\ out.cps < 1000

Contained(r) ==
  /\ r.cps # NaN /\ r.ci[1] # NaN /\ r.ci[2] # NaN
  /\ 0 <= r.ci[1] /\ r.ci[1] <= r.cps /\ r.cps <= r.ci[2] /\ r.ci[2] <= 1000
  /\ r.variance >= 0

(* C8: for every input of computeCPSWithCI the returned values satisfy
   0 <= ci[0] <= cps <= ci[1] <= 1 and variance >= 0. *)
C8_CiContainsCps ==
  /\ op = "cpsci" => Contained(out.r)
  /\ op = "cpsci2" => Contained(out2.r)

C8_Witness ==
  /\ op = "cpsci"
  /\ out.r.ci[2] = 1000 /\ out.r.cps < 1000 /\ out.r.ci[1] > 0
  /\ out.r.variance > 0

Width(r) == r.ci[2] - r.ci[1]

(* C9 as stated: of two entities identical except for count, the one with
   the larger count always gets a strictly narrower confidence interval. *)
C9_LargerCountNarrower ==
  op = "cpsci2" => Width(out2.r) < Width(out.r)

(* the entity and the call of the test: winRate 55, count 50, 'Gem Grab' *)
IsTestCall ==
  /\ args.brawler = Entity(1, 55, 55, 15, 50, << >>, << >>, Absent, Absent)
  /\ args.ctx = CtxTest

(* C9 amended: an entity without games (count 0 or absent) gets a strictly
   wider confidence interval than the otherwise identical entity with
   count >= 50, and in the call of the test count = 50 yields a wider
   interval than count = 10000. *)
C9_NoSampleWidest ==
  op = "cpsci2" =>
    /\ (out.count = 0 /\ out2.count >= 50) => Width(out2.r) < Width(out.r)
    /\ (IsTestCall /\ out2.count = 10000) => Width(out2.r) < Width(out.r)

C9_Witness ==
  /\ op = "cpsci2"
  /\ IsTestCall /\ out2.count = 10000
  /\ Width(out.r) = 218 /\ Width(out2.r) = 202

(* ---------------- callers of rankBrawlers; the clock ---------------- *)

MaxRank == 3


PoolEntity(i, kind) ==
  CASE kind = "test"  -> Entity(i, 55, 55, 12, 500, << >>, << >>, Absent, Absent)
    [] kind = "bare"  -> Entity(i, 48, Absent, Absent, Absent, << >>, << >>, Absent, Absent)
    [] kind = "shift" -> Entity(i, 52, Absent, 8, 400, ShiftGames, TestMatchups, 30, Absent)


(* the caller builds a list of entities, or has none to pass *)
SupplyPool ==
  \E n \in 0..MaxRank, absent \in BOOLEAN, c \in {CtxPro} :
    \E kinds \in [1..n -> {"test", "bare", "shift"}] :
      /\ op = "init"
      /\ absent => n = 0
      /\ heap' = [i \in 1..n |-> PoolEntity(i, kinds[i])]
      /\ brawlers' = [i \in 1..n |-> i]
      /\ ranked' = << >>
      /\ args' = [fn |-> "rank", absent |-> absent, ctx |-> c]
      /\ op' = "pool"
      /\ UNCHANGED <<services, now, out, out2>>

RankOf(t) ==
  rankBrawlers(heap, brawlers, args.absent, args.ctx.teams, args.ctx.mapMode,
               args.ctx.skillTier, args.ctx.features, t)

(* what a caller reads off a ranking: name, cps and tier in rank order *)
Ranking(r, t) ==
  [fn |-> "rank", at |-> t, alias |-> r.alias,
   result |-> [k \in 1..Len(r.result) |->
                 [name |-> r.heap[r.result[k]].name, cps |-> r.heap[r.result[k]].cps,
                  tier |-> r.heap[r.result[k]].tier]]]

(* rankBrawlers(brawlers, teams, mapMode, skillTier, mapName) *)
CallRankBrawlers ==
  /\ op = "pool"
  /\ \E r \in {RankOf(now)} :
       /\ heap' = r.heap
       /\ brawlers' = r.brawlers
       /\ ranked' = r.result
       /\ out' = Ranking(r, now)
  /\ op' = "ranked"
  /\ UNCHANGED <<services, now, args, out2>>

(* the same call once more *)
CallRankBrawlersAgain ==
  /\ op = "ranked"
  /\ \E r \in {RankOf(now)} :
       /\ heap' = r.heap
       /\ brawlers' = r.brawlers
       /\ ranked' = r.result
       /\ out2' = Ranking(r, now)
  /\ op' = "ranked2"
  /\ UNCHANGED <<services, now, args, out>>

(* a day passes between two calls *)
Tick ==
  /\ op \in {"cps", "ranked"}
  /\ now < MaxNow
  /\ now' = now + 1
  /\ UNCHANGED <<services, heap, brawlers, ranked, op, args, out, out2>>

NextEngine ==
  SupplyScored \/ CallAssignTiers \/ SupplyPool \/ CallRankBrawlers
    \/ CallRankBrawlersAgain \/ SupplyArgs \/ CallComputeCPS
    \/ CallComputeCPSAgain \/ Tick \/ Release

SpecEngine == Init /\ [][NextEngine]_vars

(* ---------------- C3, C10 ---------------- *)

(* c is b with a tier, and for rankBrawlers a cps, attached *)
IsCopy(c, b, withCps) ==
  /\ c.tier \in Tiers
  /\ IF withCps THEN c.cps # Absent /\ c = [b EXCEPT !.cps = c.cps, !.tier = c.tier]
     ELSE c = [b EXCEPT !.tier = c.tier]

(* a step that is a call of assignTiers or rankBrawlers leaves the input alone *)
InputUntouched ==
  (op' # op /\ op' \in {"tiered", "ranked", "ranked2"}) =>
    /\ brawlers' = brawlers
    /\ Len(heap') >= Len(heap)
    /\ \A r \in 1..Len(heap) : heap'[r] = heap[r]
    /\ Len(ranked') = Len(brawlers)
    /\ Len(brawlers) > 0 =>
         /\ ~(IF op' = "ranked2" THEN out2'.alias ELSE out'.alias)
         /\ \A k \in 1..Len(ranked') : ranked'[k] > Len(heap)
         /\ \A i \in 1..Len(brawlers) :
              Cardinality({k \in 1..Len(ranked') :
                             IsCopy(heap'[ranked'[k]], heap[brawlers[i]],
                                    op' # "tiered")}) = 1

(* C3: rankBrawlers and assignTiers never modify the input list or an input
   entity: after the call every input entity has the fields and values it
   had before and the list has the same order; the result is a new list
   with exactly one augmented copy per input entity; an empty or absent
   input yields an empty list. *)
C3_InputUntouched == [][InputUntouched]_vars

C3_Witness ==
  /\ op = "ranked"
  /\ Len(brawlers) = 3 /\ Len(ranked) = 3
  /\ \A i \in 1..3 : heap[brawlers[i]].cps = Absent /\ heap[brawlers[i]].tier = ""
  /\ heap[ranked[1]].tier = "S" /\ heap[ranked[1]].cps > 0
  /\ heap[ranked[1]].name # heap[brawlers[1]].name

NoGames ==
  IF op = "cps2" THEN args.brawler.recentGames = << >>
  ELSE \A i \in 1..Len(brawlers) : heap[brawlers[i]].recentGames = << >>

SameResult ==
  IF op = "cps2" THEN out2.cps = out.cps ELSE out2.result = out.result

(* C10 as stated: two calls of computeCPS or rankBrawlers with identical
   arguments return identical cps values and tiers, whenever each call is
   made and whatever was computed before. *)
C10_SameResultAnyTime ==
  op \in {"cps2", "ranked2"} => SameResult

(* C10 amended: two calls of computeCPS or rankBrawlers with identical
   arguments return identical cps values and tiers if both read the same
   clock or no entity carries recent games, whatever was computed before. *)
C10_SameResultSameClock ==
  (op \in {"cps2", "ranked2"} /\ (out2.at = out.at \/ NoGames)) => SameResult

C10_Witness ==
  /\ op = "cps2"
  /\ out2.at = out.at
  /\ args.brawler.recentGames = ShiftGames
  /\ out.cps > 0 /\ out2.cps = out.cps

(* ---------------- callers of computeStaleness ---------------- *)

MaxPick == 12

(* computeStaleness(recentPickRate, historicalPickRate, recentWR, historicalWR); *)
(* pick rates in whole percentages, Absent is a missing historical rate         *)
CallComputeStaleness ==
  \E rp \in (0..MaxPick) \cup {100}, hp \in {Absent} \cup (0..MaxPick) \cup {100},
     rw, hw \in {40, 49, 50, 51, 52, 60} :
    /\ op = "init"
    /\ args' = [fn |-> "stale", recentPick |-> rp, histPick |-> hp,
                recentWR |-> rw, histWR |-> hw]
    /\ out' = [fn |-> "stale", mult |-> computeStaleness(rp, hp, rw, hw)]
    /\ op' = "stale"
    /\ UNCHANGED <<services, heap, brawlers, ranked, now, out2>>

NextStale == CallComputeStaleness \/ Release

SpecStale == Init /\ [][NextStale]_vars

(* drop < -0.30 and |recentWR - histWR| < 2.0, over the exact rationals *)
StalePattern ==
  /\ args.histPick > 0
  /\ 10 * (args.recentPick - args.histPick) < (0 - 3) * args.histPick
  /\ 10 * Abs(args.recentWR - args.histWR) < 20

(* max(1 - maxPenalty, 1 + 0.5 * drop), the division rounded once *)
StalePenalty ==
  Max(ONE - maxPenalty,
      ONE + MulDiv(args.recentPick - args.histPick, 500000, args.histPick))

(* C11: computeStaleness returns max(1 - maxPenalty, 1 + 0.5*drop) exactly
   when drop is below the negative threshold and the win-rate shift is below
   the stability threshold; in every other case, and when histPick is zero
   or absent, it returns exactly 1.0; the result lies in [1 - maxPenalty, 1]. *)
C11_StalenessContract ==
  op = "stale" =>
    /\ IF StalePattern THEN Abs(out.mult - StalePenalty) <= 1
       ELSE out.mult = ONE
    /\ ONE - maxPenalty <= out.mult /\ out.mult <= ONE

C11_Witness ==
  /\ op = "stale" /\ StalePattern
  /\ args.recentPick = 6 /\ args.histPick = 10
  /\ out.mult = 800000

C11_WitnessFloor ==
  /\ op = "stale" /\ StalePattern
  /\ args.recentPick = 0 /\ args.histPick = 100
  /\ out.mult = ONE - maxPenalty

(* ---------------- callers of detectChangepoint ---------------- *)

MaxBlock == 40

(* makeGames(n, winRatio, daysAgo): n games of one day, the wins first *)
makeGames(n, wins, daysAgo) ==
  Rep(wins, Game(TRUE, Now0 - daysAgo)) \o Rep(n - wins, Game(FALSE, Now0 - daysAgo))

(* h: <<games, wins, days ago>> of the older games; r: <<games, wins>> of *)
(* today's games                                                          *)
ChangeGames ==
  {makeGames(h[1], h[2], h[3]) \o makeGames(r[1], r[2], 0) :
     h \in {<<0, 0, 10>>, <<MaxBlock, MaxBlock \div 2, 10>>,
             <<MaxBlock, MaxBlock \div 2, 3>>, <<MaxBlock, 0, 10>>,
             <<MaxBlock, MaxBlock, 10>>, <<MaxBlock - 10, 0, 3>>},
     r \in {<<0, 0>>, <<20, 18>>, <<MaxBlock - 10, 15>>, <<MaxBlock - 10, 22>>,
             <<MaxBlock - 10, MaxBlock - 10>>, <<MaxBlock, MaxBlock - 2>>,
             <<MaxBlock, 12>>, <<MaxBlock, 21>>}}


(* detectChangepoint(games, halfLifeDays, cpCfg) with the configured cpCfg, *)
(* the same with the flag off, or null                                     *)
CallDetectChangepoint ==
  \E g \in ChangeGames, hl \in {1, 2, halfLifeDays, 21},
     cfg \in {changepointDetection, [changepointDetection EXCEPT !.enabled = FALSE],
              [null |-> TRUE]} :
    /\ op = "init"
    /\ args' = [fn |-> "detect", games |-> g, halfLife |-> hl, cfg |-> cfg]
    /\ out' = [fn |-> "detect", games |-> g,
               r |-> detectChangepoint(g, hl, cfg, now)]
    /\ op' = "detect"
    /\ UNCHANGED <<services, heap, brawlers, ranked, now, out2>>

(* a second call with other games, the same half-life and configuration *)
CallDetectChangepointAgain ==
  \E g \in ChangeGames :
    /\ op = "detect"
    /\ out.r.isChangepoint
    /\ out2' = [fn |-> "detect", games |-> g,
                r |-> detectChangepoint(g, args.halfLife, args.cfg, now)]
    /\ op' = "detect2"
    /\ UNCHANGED <<services, heap, brawlers, ranked, now, args, out>>

NextChange == CallDetectChangepoint \/ CallDetectChangepointAgain \/ Release

SpecChange == Init /\ [][NextChange]_vars

(* ---------------- C12, C13, C14 ---------------- *)

MinHalfLife == changepointDetection.minHalfLife * ONE

(* C12: whenever detectChangepoint reports a change-point, effectiveHalfLife
   equals max(minHalfLife, halfLife / z): it is never below the configured
   minimum, it is strictly shorter than the supplied half-life, and a larger
   z never yields a longer effective half-life. *)
C12_HalfLifeShrinks ==
  /\ (op \in {"detect", "detect2"} /\ out.r.isChangepoint) =>
       /\ out.r.zShift > changepointDetection.threshold
       /\ out.r.effectiveHalfLife
            = Max(MinHalfLife, Div(args.halfLife * ONE, out.r.zShift))
       /\ out.r.effectiveHalfLife >= MinHalfLife
       /\ out.r.effectiveHalfLife < args.halfLife * ONE
  /\ (op = "detect2" /\ out2.r.isChangepoint /\ out2.r.zShift > out.r.zShift) =>
       out2.r.effectiveHalfLife <= out.r.effectiveHalfLife

(* the games of the call inside the recent window and the history window *)
RecentIdx ==
  {i \in 1..Len(args.games) :
     args.games[i].timestamp >= now - changepointDetection.recentWindowDays}
HistIdx == {i \in 1..Len(args.games) : args.games[i].timestamp >= now - args.halfLife}
WinsIn(S) == Cardinality({i \in S : args.games[i].isWin})

Disabled  == ~args.cfg.null /\ ~args.cfg.enabled
TooFewRecent == Cardinality(RecentIdx) < changepointDetection.minRecentGames
(* the historical rate is exactly 0 or 1, so the standard error is 0 *)
ZeroError == HistIdx # {} /\ WinsIn(HistIdx) \in {0, Cardinality(HistIdx)}

(* |pRecent - pHist| / sqrt(pHist (1 - pHist) / n) <= 2.5 over the exact
   rationals, with pRecent = a/n and pHist = b/m *)
ZWithin(a, n, b, m) == 4 * (a * m - b * n) * (a * m - b * n) <= 25 * n * b * (m - b)
ZAtMostThreshold ==
  IF HistIdx = {} THEN ZWithin(WinsIn(RecentIdx), Cardinality(RecentIdx), 1, 2)
  ELSE ZWithin(WinsIn(RecentIdx), Cardinality(RecentIdx),
               WinsIn(HistIdx), Cardinality(HistIdx))

NoChangepoint ==
  /\ ~out.r.isChangepoint
  /\ out.r.effectiveHalfLife = args.halfLife * ONE

(* C13: detectChangepoint reports no change-point and returns the supplied
   half-life unchanged whenever detection is disabled, the game list is
   empty, the recent window holds fewer than minRecentGames games, the
   standard error is 0, or |z| does not exceed the threshold. *)
C13_NoChangepointCases ==
  (op = "detect" /\ (\/ Disabled
                     \/ Len(args.games) = 0
                     \/ TooFewRecent
                     \/ ZeroError
                     \/ ZAtMostThreshold))
    => NoChangepoint

(* twenty recent games at 90% against a history at 0%: too few to test *)
C13_Witness ==
  /\ op = "detect" /\ ~Disabled /\ ~ZeroError /\ ~ZAtMostThreshold
  /\ TooFewRecent /\ Cardinality(RecentIdx) = 20
  /\ NoChangepoint

C13_WitnessZeroError ==
  /\ op = "detect" /\ ~Disabled /\ ~TooFewRecent /\ ZeroError
  /\ WinsIn(RecentIdx) < Cardinality(RecentIdx)
  /\ NoChangepoint /\ out.r.zShift = 0

(* C14 as stated: with a null or undefined configuration detectChangepoint
   always returns isChangepoint = false and the supplied half-life. *)
C14_NullConfigNoChangepoint ==
  (op = "detect" /\ args.cfg.null) => NoChangepoint

(* C14 amended: with a null or undefined configuration detectChangepoint
   applies the configured detection, which is enabled: it reports a
   change-point exactly when the games are not empty, the recent window holds
   at least minRecentGames games, the standard error is not 0 and |z| exceeds
   the threshold, and otherwise returns the supplied half-life unchanged. *)
C14_NullConfigIsConfigured ==
  (op = "detect" /\ args.cfg.null) =>
    /\ out.r.isChangepoint <=>
         ~(Len(args.games) = 0 \/ TooFewRecent \/ ZeroError \/ ZAtMostThreshold)
    /\ ~out.r.isChangepoint => NoChangepoint

(* a null configuration and a sharp recent shift *)
C14_Witness ==
  /\ op = "detect" /\ args.cfg.null /\ args.halfLife = halfLifeDays
  /\ Cardinality(RecentIdx) = MaxBlock /\ Cardinality(HistIdx) = 2 * MaxBlock
  /\ out.r.isChangepoint
  /\ out.r.effectiveHalfLife < args.halfLife * ONE

(* a null configuration and the all-wins games of the test *)
C14_WitnessAllWins ==
  /\ op = "detect" /\ args.cfg.null
  /\ ~TooFewRecent /\ WinsIn(HistIdx) = Cardinality(HistIdx) /\ HistIdx # {}
  /\ NoChangepoint

(* ---------------- C15 ---------------- *)

IsBase(w, base) ==
  /\ w.performance = base.performance /\ w.synergy = base.synergy
  /\ w.popularity = base.popularity /\ w.counter = base.counter

(* the weights of the mode under the 'competitive' tier, without a map *)
CompetitiveWeights == getEffectiveWeights(args.mapType, "competitive", NoFeatures)

(* C15: for every mode without map context, relative to the competitive
   weights of that mode, casual yields a strictly higher performance weight
   and a strictly lower synergy weight; pro yields strictly higher synergy and
   counter weights and strictly lower performance and popularity weights;
   competitive, or an absent or unknown tier, yields exactly the base mode
   weights. *)
C15_TierShifts ==
  (op = "weights" /\ ~args.features.found) =>
    /\ args.skillTier = "casual" =>
         /\ out.w.performance > CompetitiveWeights.performance
         /\ out.w.synergy < CompetitiveWeights.synergy
    /\ args.skillTier = "pro" =>
         /\ out.w.synergy > CompetitiveWeights.synergy
         /\ out.w.counter > CompetitiveWeights.counter
         /\ out.w.performance < CompetitiveWeights.performance
         /\ out.w.popularity < CompetitiveWeights.popularity
    /\ args.skillTier \notin {"casual", "pro"} =>
         IsBase(out.w, getMapTypeWeights(args.mapType))

(* 'pro' in showdown: the popularity weight is clamped to 0 *)
C15_Witness ==
  /\ op = "weights" /\ ~args.features.found
  /\ args.skillTier = "pro" /\ args.mapType = "showdown"
  /\ out.w.popularity = 0 /\ out.w.synergy = 150000

C15_WitnessUnknownTier ==
  /\ op = "weights" /\ ~args.features.found
  /\ args.skillTier = "legend" /\ args.mapType = "heist"
  /\ IsBase(out.w, mapWeights("heist"))

(* ---------------- callers of calculateUseRateScore ---------------- *)

MaxUse == 12

(* use rates and win rates in whole percentages, pool statistics PCT-scaled *)
UseRates == (0..MaxUse) \cup {25}

UseOut(a, useRate) ==
  [fn |-> "use", useRate |-> useRate,
   score |-> calculateUseRateScore(useRate, a.winRate, a.meanUse, a.stdDevUse,
                                   a.meanWin, a.stdDevWin)]

(* calculateUseRateScore(useRate, winRate, meanUse, stdDevUse, meanWin, stdDevWin) *)
CallUseRateScore ==
  \E u \in UseRates, w \in {40, 50, 55, 60}, su, sw \in {0, 5 * PCT} :
    /\ op = "init"
    /\ args' = [fn |-> "use", winRate |-> w, meanUse |-> (10 * PCT),
                stdDevUse |-> su, meanWin |-> (50 * PCT), stdDevWin |-> sw]
    /\ out' = UseOut(args', u)
    /\ op' = "use"
    /\ UNCHANGED <<services, heap, brawlers, ranked, now, out2>>

(* a second call that differs by the use rate only *)
CallUseRateScoreOther ==
  \E u \in UseRates :
    /\ op = "use"
    /\ u # out.useRate
    /\ out2' = UseOut(args, u)
    /\ op' = "use2"
    /\ UNCHANGED <<services, heap, brawlers, ranked, now, args, out>>

NextUse == CallUseRateScore \/ CallUseRateScoreOther \/ Release

SpecUse == Init /\ [][NextUse]_vars

(* ---------------- C16 ---------------- *)

(* z_use <= z_win over the exact rationals; a z-score is 0 when its pool
   standard deviation is 0 *)
ZUseSign(u) == IF args.stdDevUse > 0 THEN u * PCT - args.meanUse ELSE 0
ZWinSign    == IF args.stdDevWin > 0 THEN args.winRate * PCT - args.meanWin ELSE 0
Sleeper(u) ==
  IF args.stdDevUse > 0 /\ args.stdDevWin > 0
  THEN (u * PCT - args.meanUse) * args.stdDevWin
         <= (args.winRate * PCT - args.meanWin) * args.stdDevUse
  ELSE ZUseSign(u) <= ZWinSign

(* C16: whenever the use-rate z-score does not exceed the win-rate z-score
   the score does not depend on the use rate, and the score is exactly 0.5
   when both z-scores are 0. *)
C16_SleeperNotPenalized ==
  /\ (op = "use2" /\ Sleeper(out.useRate) /\ Sleeper(out2.useRate)) =>
       out2.score = out.score
  /\ (op \in {"use", "use2"} /\ ZUseSign(out.useRate) = 0 /\ ZWinSign = 0) =>
       out.score = 500000

(* use 5% and use 0% at win 60%, pool 10% +- 5 and 50% +- 5 *)
C16_Witness ==
  /\ op = "use2" /\ args.stdDevUse > 0 /\ args.stdDevWin > 0
  /\ args.winRate = 60 /\ out.useRate = 5 /\ out2.useRate = 0
  /\ out.score = out2.score /\ out.score > 900000

C16_WitnessAverage ==
  /\ op = "use" /\ args.stdDevUse > 0 /\ args.stdDevWin > 0
  /\ args.winRate = 50 /\ out.useRate = 10
  /\ out.score = 500000

(* ---------------- callers of calculateCompositionScore ---------------- *)

MaxTeams == 2

(* the brawlers of the composition tests: 4 Poco 52, 3 Mortis 48, 2 Brock 50; *)
(* 1 is a name the list does not hold                                         *)
mockBrawlers ==
  << Entity(4, 52, 52, Absent, Absent, << >>, << >>, Absent, Absent),
     Entity(3, 48, 48, Absent, Absent, << >>, << >>, Absent, Absent),
     Entity(2, 50, 50, Absent, Absent, << >>, << >>, Absent, Absent) >>


TeamLists ==
  {<< >>} \cup
  {<<Team(m, wr, Absent, c)>> \o rest :
     m \in {<<4, 3, 2>>, <<3, 2, 1>>, <<4, 1>>},
     wr \in {0, 40, 50, 51, 62},
     c \in {Absent, 10, compMinTeamSampleCount, compMinTeamSampleCount + 1, 200},
     rest \in UNION {[1..n -> {Team(<<4, 3, 2>>, 70, 70, 10), Team(<<3, 2, 1>>, 70, 70, 5000),
                               Team(<<4, 3, 2>>, 40, 40, 5000)}] : n \in 0..(MaxTeams - 1)}}

(* the legacy alias: module.exports.calculatePairwiseSynergy *)
calculatePairwiseSynergy(brawlerName, allTeams, topBrawlers) ==
  calculateCompositionScore(brawlerName, allTeams, topBrawlers)

(* calculateCompositionScore('Poco', allTeams, mockBrawlers), or its alias; *)
(* allTeams.filter throws a TypeError on a null or undefined team list      *)
CallCompositionScore ==
  \E fn \in {"calculateCompositionScore", "calculatePairwiseSynergy"},
     absent \in BOOLEAN, teams \in TeamLists :
    /\ op = "init"
    /\ absent => teams = << >>
    /\ args' = [fn |-> fn, brawlerName |-> 4, absent |-> absent, teams |-> teams]
    /\ out' = IF absent THEN [fn |-> "comp", threw |-> TRUE, score |-> NaN]
               ELSE [fn |-> "comp", threw |-> FALSE,
                     score |-> IF fn = "calculatePairwiseSynergy"
                               THEN calculatePairwiseSynergy(4, teams, mockBrawlers)
                               ELSE calculateCompositionScore(4, teams, mockBrawlers)]
    /\ op' = "comp"
    /\ UNCHANGED <<services, heap, brawlers, ranked, now, out2>>

NextComp == CallCompositionScore \/ Release

SpecComp == Init /\ [][NextComp]_vars

(* ---------------- C17, C18 ---------------- *)

(* the positions of the groups that hold the entity with a count above the
   minimum sample count *)
Qualifying ==
  {i \in 1..Len(args.teams) :
     /\ \E k \in 1..Len(args.teams[i].brawlers) :
          args.teams[i].brawlers[k] = args.brawlerName
     /\ args.teams[i].count # Absent
     /\ args.teams[i].count > 50}

(* C17: calculateCompositionScore and its alias calculatePairwiseSynergy
   return exactly 0.5 whenever no group qualifies: the group list is absent
   or empty, no group contains the entity, or every group containing it has a
   count that is not strictly above 50. *)
C17_NeutralWithoutGroups ==
  (op = "comp" /\ Qualifying = {}) => (~out.threw /\ out.score = 500000)

(* the win rate a member brings: the one the list knows, else 50 *)
MemberRate(n) ==
  IF \E i \in 1..Len(mockBrawlers) : mockBrawlers[i].name = n
  THEN (CHOOSE b \in {mockBrawlers[i] : i \in 1..Len(mockBrawlers)} : b.name = n).winRate
  ELSE 50

MemberSum(t) == SumSeq([k \in 1..Len(t.brawlers) |-> MemberRate(t.brawlers[k])])

(* the group's win rate against the mean of its members, both multiplied by
   the number of members *)
LiftSign(t) == t.winRate * Len(t.brawlers) - MemberSum(t)

TheGroup == args.teams[CHOOSE i \in Qualifying : TRUE]

(* C18: with a single qualifying group the composition score is strictly
   greater than 0.5 when the group's win rate exceeds the mean individual win
   rate of its members (members without a known win rate count as 50),
   strictly less than 0.5 when it is below that mean, and exactly 0.5 when
   they are equal. *)
C18_LiftSign ==
  (op = "comp" /\ ~out.threw /\ Cardinality(Qualifying) = 1) =>
    /\ LiftSign(TheGroup) > 0 => out.score > 500000
    /\ LiftSign(TheGroup) < 0 => out.score < 500000
    /\ LiftSign(TheGroup) = 0 => out.score = 500000

(***************************************************************************)
(* callers of calculateCounterMetaScore                                    *)
(***************************************************************************)
MaxMatchups == 2

SampleCounts == {20, minMatchupSampleCount, minMatchupSampleCount + 1, 100}

CallCounterMetaScore ==
  \E absent \in BOOLEAN, noEnemies \in BOOLEAN, pe \in {<< >>, <<1>>, <<3, 2>>},
     ms \in UNION {[1..n -> {Matchup(1, 70, c) : c \in SampleCounts} \cup
                            {Matchup(2, 35, c) : c \in SampleCounts}] : n \in 0..MaxMatchups} :
    /\ op = "init"
    /\ absent => ms = << >>
    /\ noEnemies => pe = << >>
    /\ args' = [fn |-> "counter", brawlerName |-> 4, absent |-> absent, matchups |-> ms,
                noEnemies |-> noEnemies, popularEnemies |-> pe]
    /\ out'  = [fn |-> "counter",
                score |-> IF absent THEN counterDefaultScore
                          ELSE calculateCounterMetaScore(4, ms, IF noEnemies THEN << >> ELSE pe)]
    /\ op'   = "counter"
    /\ UNCHANGED <<services, heap, brawlers, ranked, now, out2>>

NextCounter == CallCounterMetaScore \/ Release
SpecCounter == Init /\ [][NextCounter]_vars

(* the matchups that qualify: sampled strictly more than 30 times and, when *)
(* a non-empty popular-opponent list is given, against a listed opponent    *)
QualifyingMatchups ==
  {i \in 1..Len(args.matchups) :
     /\ args.matchups[i].sampleCount > 30
     /\ (args.noEnemies \/ args.popularEnemies = << >>
         \/ \E k \in 1..Len(args.popularEnemies) :
              args.popularEnemies[k] = args.matchups[i].opponent)}

(* C19: calculateCounterMetaScore returns the default score 0.5 whenever no *)
(* matchup qualifies: the list is absent or empty, every matchup has a      *)
(* sampleCount of at most 30, or a non-empty popular-opponent list is given *)
(* and no sufficiently sampled matchup is against a listed opponent.        *)
C19_DefaultWithoutMatchups ==
  (op = "counter" /\ (args.absent \/ QualifyingMatchups = {})) => out.score = 500000

(* a well sampled matchup against an opponent that is not listed, next to   *)
(* one at exactly the minimum sample count against a listed opponent        *)
C19_Witness ==
  /\ op = "counter"
  /\ args.matchups = <<Matchup(1, 70, 100), Matchup(2, 35, 30)>>
  /\ args.popularEnemies = <<3, 2>>
  /\ out.score = 500000

C19_WitnessAbsent == op = "counter" /\ args.absent /\ out.score = 500000

(* C20: F is the bottom 10% of the ranked pool: for every pool of N >= 10   *)
(* entities the lowest-ranked entity receives tier F, and for N = 20 the    *)
(* counts are S=2, A=4, B=8, C=4, F=2.                                      *)
C20_BottomIsF ==
  (op = "tiered" /\ Len(ranked) >= 10) =>
    /\ heap[ranked[Len(ranked)]].tier = "F"
    /\ Len(ranked) = 20 =>
         /\ TierCount("S") = 2 /\ TierCount("A") = 4 /\ TierCount("B") = 8
         /\ TierCount("C") = 4 /\ TierCount("F") = 2

(***************************************************************************)
(* The rate limiter: new RateLimiter({windowMs, maxRequests}) is built at  *)
(* Now0; clients maps a client id to {requests, resetTime}.                *)
(***************************************************************************)
windowMs    == 1
maxRequests == 2
MaxElapsed  == 2
MaxPassed   == 6

(* the middleware handles one request of a client *)
Middleware ==
  \E clientId \in {1, 2} :
    LET client   == IF \E r \in clients : r.id = clientId
                    THEN CHOOSE r \in clients : r.id = clientId
                    ELSE [id |-> clientId, requests |-> << >>, resetTime |-> now + windowMs]
        requests == SelectSeq(client.requests, LAMBDA timestamp : now - timestamp < windowMs)
        others   == {r \in clients : r.id # clientId}
    IN /\ Len(passed) < MaxPassed
       /\ IF Len(requests) >= maxRequests
          THEN /\ clients' = others \cup {[client EXCEPT !.requests = requests]}
               /\ out' = [fn |-> "limit", clientId |-> clientId, status |-> 429]
               /\ UNCHANGED passed
          ELSE /\ clients' = others \cup {[client EXCEPT !.requests = Append(requests, now)]}
               /\ out' = [fn |-> "limit", clientId |-> clientId, status |-> 200]
               /\ passed' = Append(passed, [clientId |-> clientId, at |-> now])
       /\ UNCHANGED <<heap, brawlers, ranked, op, now, args, out2,
                      cache, pending, cachedOnce, snapshots, saved>>

(* setInterval(() => this.cleanup(), this.windowMs) *)
Cleanup ==
  /\ now > Now0
  /\ (now - Now0) % windowMs = 0
  /\ clients' = {r \in clients : ~(now > r.resetTime)}
  /\ UNCHANGED <<heap, brawlers, ranked, op, now, args, out, out2,
                 passed, cache, pending, cachedOnce, snapshots, saved>>

(* a millisecond passes *)
Elapse ==
  /\ op = "init"
  /\ now < Now0 + MaxElapsed
  /\ now' = now + 1
  /\ UNCHANGED <<heap, brawlers, ranked, op, args, out, out2, services>>

NextLimiter == Middleware \/ Cleanup \/ Elapse
SpecLimiter == Init /\ [][NextLimiter]_vars

PassedIn(clientId, from) ==
  Cardinality({i \in 1..Len(passed) :
                 /\ passed[i].clientId = clientId
                 /\ from <= passed[i].at /\ passed[i].at < from + windowMs})

(* C21: the rate limiter enforces a sliding window per client: for every   *)
(* client and every time interval of length windowMs at most maxRequests   *)
(* of that client's requests are passed on to the next handler, every      *)
(* other request of the client being answered with status 429.             *)
C21_SlidingWindow ==
  \A clientId \in {1, 2} : \A from \in Now0..(Now0 + MaxElapsed) :
    PassedIn(clientId, from) <= maxRequests

(***************************************************************************)
(* The response cache of the server: cache is the Map in its iteration     *)
(* order, each entry {key, data, ts}; data is the time the upstream        *)
(* answered.  Keys are numbers (map:1, brawler:1, map:2, ...), one more    *)
(* than the cache may hold.                                                *)
(***************************************************************************)
MAX_CACHE_ENTRIES == 2
CACHE_TTL         == 2
MaxPending        == 2

WithoutKey(c, key) == SelectSeq(c, LAMBDA e : e.key # key)

(* getCached(key, ttl) at clock t: the cache afterwards and the data, Absent *)
(* for null                                                                  *)
getCached(c, key, ttl, t) ==
  IF ~\E i \in 1..Len(c) : c[i].key = key
  THEN [cache |-> c, data |-> Absent]
  ELSE LET entry == c[CHOOSE i \in 1..Len(c) : c[i].key = key]
       IN IF t - entry.ts < ttl
          THEN [cache |-> Append(WithoutKey(c, key), entry), data |-> entry.data]
          ELSE [cache |-> WithoutKey(c, key), data |-> Absent]

(* a buggy variant: on overflow the entry just inserted is the one deleted *)
setCacheDropNewest(c, key, data, t) ==
  LET set == Append(WithoutKey(c, key), [key |-> key, data |-> data, ts |-> t])
  IN IF Len(set) > MAX_CACHE_ENTRIES THEN SubSeq(set, 1, Len(set) - 1) ELSE set

(* setCache(key, data) at clock t *)
setCache(c, key, data, t) ==
  LET set == Append(WithoutKey(c, key), [key |-> key, data |-> data, ts |-> t])
  IN IF Len(set) > MAX_CACHE_ENTRIES THEN Tail(set) ELSE set

(* GET /api/map/:id and GET /api/brawler/:id without raw=true, up to the    *)
(* await of the upstream fetch: a cache hit is answered at once, status 0    *)
(* is a request that has no answer yet                                      *)
HandlerStart ==
  \E key \in 1..(MAX_CACHE_ENTRIES + 1) :
    LET cached == getCached(cache, key, CACHE_TTL, now)
    IN /\ op = "init"
       /\ cache' = cached.cache
       /\ IF cached.data # Absent
          THEN /\ out' = [fn |-> "handler", key |-> key, fetch |-> "none",
                          status |-> 200, stale |-> FALSE]
               /\ UNCHANGED pending
          ELSE /\ Len(pending) < MaxPending
               /\ pending' = SelectSeq(pending, LAMBDA k : k <= key) \o <<key>>
                                \o SelectSeq(pending, LAMBDA k : k > key)
               /\ out' = [fn |-> "handler", key |-> key, fetch |-> "awaited",
                          status |-> 0, stale |-> FALSE]
       /\ UNCHANGED <<heap, brawlers, ranked, op, now, args, out2,
                      clients, passed, cachedOnce, snapshots, saved>>

(* the same handlers after the await: the upstream answered with data, with *)
(* a payload that strips to nothing, or the fetch threw                     *)
HandlerResume ==
  \E i \in 1..Len(pending), fetch \in {"data", "unsupported", "error"} :
    LET key   == pending[i]
        stale == \E j \in 1..Len(cache) : cache[j].key = key
    IN /\ pending' = SubSeq(pending, 1, i - 1) \o SubSeq(pending, i + 1, Len(pending))
       /\ cache' = IF fetch = "data" THEN setCache(cache, key, now, now) ELSE cache
       /\ cachedOnce' = IF fetch = "data" THEN cachedOnce \cup {key} ELSE cachedOnce
       /\ out' = [fn |-> "handler", key |-> key, fetch |-> fetch,
                  status |-> CASE fetch = "data" -> 200
                               [] fetch = "unsupported" -> 404
                               [] OTHER -> IF stale THEN 200 ELSE 502,
                  stale |-> fetch = "error" /\ stale]
       /\ UNCHANGED <<heap, brawlers, ranked, op, now, args, out2,
                      clients, passed, snapshots, saved>>

NextServer == HandlerStart \/ HandlerResume \/ Elapse
SpecServer == Init /\ [][NextServer]_vars

(* C22: when the upstream fetch for /api/map/:id or /api/brawler/:id fails  *)
(* and data for that key had been cached earlier, even if its TTL has since *)
(* expired, the handler serves the previously cached data, marked stale,    *)
(* instead of a 502 error.                                                  *)
C22_StaleOnFailure ==
  (out.fn = "handler" /\ out.fetch = "error" /\ out.key \in cachedOnce) =>
    (out.status = 200 /\ out.stale)

CacheKeys(c) == {c[i].key : i \in 1..Len(c)}

(* a step in which a handler stores fresh data under a key the full cache *)
(* does not hold                                                          *)
InsertsIntoFull ==
  /\ Len(pending') < Len(pending)
  /\ out'.fetch = "data"
  /\ out'.key \notin CacheKeys(cache)
  /\ Len(cache) = MAX_CACHE_ENTRIES

(* C23 as stated: the cache holds at most MAX_CACHE_ENTRIES entries; an     *)
(* insertion that would exceed the cap evicts exactly one entry, the oldest *)
(* one (the one stored longest ago), and never the entry just inserted.     *)
C23_EvictsOldest ==
  [][/\ Len(cache') <= MAX_CACHE_ENTRIES
     /\ InsertsIntoFull =>
          /\ Cardinality(CacheKeys(cache) \ CacheKeys(cache')) = 1
          /\ out'.key \in CacheKeys(cache')
          /\ \A i, j \in 1..Len(cache) :
               cache[i].key \notin CacheKeys(cache') => cache[i].ts <= cache[j].ts]_vars

(* C23, amended: the cache holds at most MAX_CACHE_ENTRIES entries; an      *)
(* insertion that would exceed the cap evicts exactly one entry, the first  *)
(* in the Map's order, which is the one inserted or returned by a cache hit *)
(* longest ago, and never the entry just inserted.                          *)
C23_EvictsLeastRecentlyUsed ==
  [][/\ Len(cache') <= MAX_CACHE_ENTRIES
     /\ InsertsIntoFull =>
          /\ CacheKeys(cache) \ CacheKeys(cache') = {cache[1].key}
          /\ out'.key \in CacheKeys(cache')
          /\ cache' = Append(Tail(cache), [key |-> out'.key, data |-> now, ts |-> now])]_vars

(* an entry was evicted: a key cached before is gone although nothing has *)
(* expired yet                                                            *)
C23_Witness ==
  /\ out.fn = "handler" /\ out.fetch = "data"
  /\ now = Now0
  /\ Len(cache) = MAX_CACHE_ENTRIES
  /\ cachedOnce \ CacheKeys(cache) # {}

(***************************************************************************)
(* The pick-rate snapshot store: snapshots is the store as loadStore reads *)
(* it and persistStore writes it, a list of {timestamp, brawlers} per map  *)
(* id; saved keeps every snapshot that was ever pushed.                    *)
(***************************************************************************)
MAX_SNAPSHOTS_PER_MAP == 2
MaxSaves              == 3

(* store[key], or the empty list saveSnapshot starts a new map with *)
SnapsOf(store, key) == IF key \in DOMAIN store THEN store[key] ELSE << >>

Put(store, key, snaps) ==
  [k \in DOMAIN store \cup {key} |-> IF k = key THEN snaps ELSE store[k]]

(* the pickRates object: the last useRate of every name that has one *)
PickRates(list) ==
  [n \in {list[i].name : i \in {j \in 1..Len(list) : list[j].useRate # Absent}} |->
     list[CHOOSE i \in 1..Len(list) :
            /\ list[i].name = n /\ list[i].useRate # Absent
            /\ \A j \in (i + 1)..Len(list) :
                 ~(list[j].name = n /\ list[j].useRate # Absent)].useRate]

(* a buggy variant: the rolling window keeps the first snapshots *)
saveSnapshotKeepFirst(store, mapId, list, t) ==
  IF DOMAIN PickRates(list) = {} THEN store
  ELSE Put(store, mapId,
           SubSeq(Append(SnapsOf(store, mapId), [timestamp |-> t, brawlers |-> PickRates(list)]),
                  1, Min(MAX_SNAPSHOTS_PER_MAP, Len(SnapsOf(store, mapId)) + 1)))

(* saveSnapshot(mapId, brawlers) at clock t: the store afterwards, trimmed *)
(* with slice(-MAX_SNAPSHOTS_PER_MAP)                                     *)
saveSnapshot(store, mapId, list, t) ==
  IF DOMAIN PickRates(list) = {} THEN store
  ELSE Put(store, mapId,
           SubSeq(Append(SnapsOf(store, mapId), [timestamp |-> t, brawlers |-> PickRates(list)]),
                  Max(1, Len(SnapsOf(store, mapId)) + 2 - MAX_SNAPSHOTS_PER_MAP),
                  Len(SnapsOf(store, mapId)) + 1))

(* getHistoricalPickRate(mapId, brawlerName), Absent for null *)
getHistoricalPickRate(store, mapId, brawlerName) ==
  IF Len(SnapsOf(store, mapId)) < 2 THEN Absent
  ELSE IF brawlerName \in DOMAIN store[mapId][1].brawlers
       THEN store[mapId][1].brawlers[brawlerName]
       ELSE Absent

(* saveSnapshot(mapId, brawlers) with brawler lists as the tests pass them: *)
(* 1 is Shelly, 2 is Colt                                                  *)
CallSaveSnapshot ==
  \E mapId \in {1, 42},
     list \in {<<[name |-> 1, useRate |-> 10]>>, <<[name |-> 1, useRate |-> Absent]>>,
               <<[name |-> 1, useRate |-> 0], [name |-> 2, useRate |-> Absent]>>,
               <<[name |-> 1, useRate |-> 12], [name |-> 2, useRate |-> 9]>>} :
    /\ Len(SnapsOf(saved, 1)) + Len(SnapsOf(saved, 42)) < MaxSaves
    /\ snapshots' = saveSnapshot(snapshots, mapId, list, now)
    /\ saved' = IF DOMAIN PickRates(list) = {} THEN saved
                ELSE Put(saved, mapId, Append(SnapsOf(saved, mapId),
                                              [timestamp |-> now, brawlers |-> PickRates(list)]))
    /\ out' = [fn |-> "save", mapId |-> mapId]
    /\ UNCHANGED <<heap, brawlers, ranked, op, now, args, out2,
                   clients, passed, cache, pending, cachedOnce>>

CallGetHistoricalPickRate ==
  \E mapId \in {1, 42}, brawlerName \in {1, 2} :
    /\ out' = [fn |-> "history", mapId |-> mapId, brawlerName |-> brawlerName,
               rate |-> getHistoricalPickRate(snapshots, mapId, brawlerName)]
    /\ UNCHANGED <<heap, brawlers, ranked, op, now, args, out2, services>>

NextSnapshots == CallSaveSnapshot \/ CallGetHistoricalPickRate \/ Elapse
SpecSnapshots == Init /\ [][NextSnapshots]_vars

(* the number of snapshots of a map that are retained *)
Retained(mapId) == Min(Len(SnapsOf(saved, mapId)), MAX_SNAPSHOTS_PER_MAP)

OldestRetained(mapId) == saved[mapId][Len(saved[mapId]) - Retained(mapId) + 1]

(* C24: after any sequence of saveSnapshot calls for a map at most 48      *)
(* (MAX_SNAPSHOTS_PER_MAP) snapshots are retained for it, namely the most  *)
(* recently saved ones in save order; getHistoricalPickRate returns null   *)
(* while fewer than two snapshots are retained and otherwise the entity's  *)
(* rate in the oldest retained snapshot, null if the entity is not in it.  *)
C24_RollingWindow ==
  /\ \A mapId \in {1, 42} :
       /\ Len(SnapsOf(snapshots, mapId)) = Retained(mapId)
       /\ \A i \in 1..Retained(mapId) :
            snapshots[mapId][i] = saved[mapId][Len(saved[mapId]) - Retained(mapId) + i]
  /\ out.fn = "history" =>
       out.rate = IF Retained(out.mapId) < 2 THEN Absent
                  ELSE IF out.brawlerName \in DOMAIN OldestRetained(out.mapId).brawlers
                       THEN OldestRetained(out.mapId).brawlers[out.brawlerName]
                       ELSE Absent

(* more snapshots were saved than are kept, and the entity asked for is *)
(* in the oldest one that is kept                                       *)
C24_Witness ==
  /\ out.fn = "history"
  /\ Len(SnapsOf(saved, out.mapId)) > MAX_SNAPSHOTS_PER_MAP
  /\ saved[out.mapId][1].brawlers # OldestRetained(out.mapId).brawlers
  /\ out.rate # Absent

(* the wins and losses computeCPS hands to the confidence estimator for the *)
(* entity of the call                                                       *)
InputsOfCall ==
  ConfidenceInputs(WinRateOr50(args.brawler), OrElse(args.brawler.count, 0))

(* C25: computeCPS derives the confidence inputs from the entity's own data *)
(* for every winRate in [0,100] (adjustedWinRate absent) and every count    *)
(* n >= 0: wins = winRate/100 * n and losses = n - wins, so that            *)
(* wins + losses = n and both are non-negative.                             *)
C25_ConfidenceInputs ==
  (/\ op = "cps"
   /\ args.brawler.adjustedWinRate = Absent
   /\ args.brawler.winRate \in 0..100
   /\ args.brawler.count # Absent) =>
    /\ InputsOfCall.wins = args.brawler.winRate * args.brawler.count
    /\ InputsOfCall.losses = args.brawler.count * CENT - InputsOfCall.wins
    /\ InputsOfCall.wins >= 0 /\ InputsOfCall.losses >= 0

(* the weight of a matchup and the raw deviation from 0.5 of the weighted *)
(* average win fraction over the qualifying matchups                      *)
WeightOf(i) == Ln(args.matchups[i].sampleCount)

RawDeviation ==
  MulDiv(SumSeq([i \in 1..Len(args.matchups) |->
                   IF i \in QualifyingMatchups
                   THEN WeightOf(i) * (args.matchups[i].winRate - 50) ELSE 0]),
         ONE \div 100,
         SumSeq([i \in 1..Len(args.matchups) |->
                   IF i \in QualifyingMatchups THEN WeightOf(i) ELSE 0]))

(* C26: when at least one matchup qualifies the counter score lies between *)
(* 0.5 and the raw sample-weighted average win fraction: it is on the same *)
(* side of 0.5 as the raw average and its distance from 0.5 is the raw     *)
(* distance multiplied by a factor in [minMultiplier, 1), exactly          *)
(* minMultiplier when a single matchup holds all the weight and strictly   *)
(* larger when the weight is spread over several matchups.  Distances are  *)
(* compared up to the rounding error of the arithmetic, 3 millionths.      *)
C26_AttenuatedDeviation ==
  (op = "counter" /\ ~args.absent /\ QualifyingMatchups # {}) =>
    LET deviation == out.score - 500000
    IN /\ RawDeviation > 3 => deviation > 0
       /\ RawDeviation < -3 => deviation < 0
       /\ Abs(deviation) >= Mul(700000, Abs(RawDeviation)) - 3
       /\ Abs(RawDeviation) > 3 => Abs(deviation) < Abs(RawDeviation)
       /\ Cardinality(QualifyingMatchups) = 1 =>
            Abs(deviation) <= Mul(700000, Abs(RawDeviation)) + 3
       /\ (Cardinality(QualifyingMatchups) > 1 /\ Abs(RawDeviation) > 300) =>
            Abs(deviation) > Mul(700000, Abs(RawDeviation)) + 3

(* two qualifying matchups on opposite sides of 50 *)
C26_Witness ==
  /\ op = "counter"
  /\ args.matchups = <<Matchup(1, 70, 100), Matchup(2, 35, 31)>>
  /\ args.noEnemies
  /\ out.score > 500000 + 40000
  /\ out.score < 500000 + 43000

(* C27: for every terrain-feature vector within the documented ranges      *)
(* (openness and bushCoverage in [0,1], laneCount in 1..4) each of the four *)
(* additive weight modifiers has absolute value at most 0.03, and an       *)
(* unknown or absent map yields all-zero modifiers.                        *)
C27_SmallModifiers ==
  op = "weights" =>
    /\ Abs(out.mods.performance) <= 30000
    /\ Abs(out.mods.synergy) <= 30000
    /\ Abs(out.mods.popularity) <= 30000
    /\ Abs(out.mods.counter) <= 30000
    /\ ~args.features.found => out.mods = Weights(0, 0, 0, 0)

(* C28: computeCPS applies a staleness multiplier other than 1.0 only when *)
(* the entity carries both a historicalPickRate and a current useRate: an  *)
(* entity whose useRate is absent receives the same cps whether or not a   *)
(* historicalPickRate is supplied.                                         *)
C28_NoStalenessWithoutUseRate ==
  (op = "cpsHistory" /\ args.brawler.useRate = Absent) => out2.cps = out.cps

(* the configuration detectChangepoint works with and the two windows of *)
(* the call                                                              *)
CfgOfCall == IF args.cfg.null THEN changepointDetection ELSE args.cfg
WindowsOfCall == GameWindows(args.games, CfgOfCall.recentWindowDays, args.halfLife, now)

(* C29: whenever recentWindowDays <= halfLifeDays the recent games are the   *)
(* games of the historical window that fall in the recent window (nested,   *)
(* not disjoint windows), and with no games older than the recent window    *)
(* the two windows hold the same games, so p_recent = p_hist, the shift is  *)
(* zero and no change-point is reported.                                    *)
C29_NestedWindows ==
  (op = "detect" /\ CfgOfCall.recentWindowDays <= args.halfLife) =>
    /\ WindowsOfCall.recentGames =
         SelectSeq(WindowsOfCall.histGames,
                   LAMBDA g : g.timestamp >= now - CfgOfCall.recentWindowDays)
    /\ WindowsOfCall.recentGames = args.games =>
         /\ WindowsOfCall.histGames = WindowsOfCall.recentGames
         /\ ~out.r.isChangepoint
         /\ out.r.zShift = 0

C29_Witness ==
  /\ op = "detect" /\ CfgOfCall.enabled
  /\ args.halfLife = halfLifeDays
  /\ WindowsOfCall.recentGames = args.games
  /\ Len(args.games) >= CfgOfCall.minRecentGames
  /\ \E i, j \in 1..Len(args.games) :
       /\ args.games[i].timestamp = now - CfgOfCall.recentWindowDays
       /\ args.games[j].timestamp = now
  /\ Len(SelectSeq(args.games, IsWin)) * 10 > Len(args.games) * 7
  /\ ~out.r.isChangepoint

(* C30: with the default 50/50 priors the confidence is at least 0.80 for *)
(* every non-negative wins and losses and is smallest at wins = losses = 0; *)
(* confidence(1000, 1000) > 0.9 and 0.80 <= confidence(10, 10) < 0.85.      *)
C30_ConfidenceFloor ==
  (op = "confidence" /\ DefaultPriors) =>
    /\ out.conf >= 800000
    /\ out.conf >= ConfOut(ConfArgs(0, 0, priorWinsDefault, priorLossesDefault)).conf
    /\ (args.wins = 1000 /\ args.losses = 1000) => out.conf > 900000
    /\ (args.wins = 10 /\ args.losses = 10) => out.conf < 850000

C30_Witness ==
  /\ op = "confidence" /\ DefaultPriors
  /\ args.wins = 10 /\ args.losses = 10
  /\ out.conf >= 800000 /\ out.conf < 850000
  /\ out.conf > ConfOut(ConfArgs(0, 0, priorWinsDefault, priorLossesDefault)).conf

====
